---- MODULE Spec2Model ----
(***************************************************************************)
(* Model of the deal evaluation pipeline of HOTDEAL_SCRAPER:               *)
(*   app/core/processor.py  (Processor: cache, hard filter, soft score)    *)
(*   app/core/analyzer.py   (Analyzer.analyze_batch)                       *)
(*   app/crawlers/base.py   (BaseCrawler.process, early filter)            *)
(*   app/core/database.py   (Database)                                     *)
(*   run_once.py            (run_pipeline)                                 *)
(*                                                                         *)
(* Text is a sequence of symbols.  A symbol is one character ("0".."9",    *)
(* ",", ".", "$", "%", " ") or one Korean word of the source written in    *)
(* ASCII: "won" is the price suffix, "dollar" the currency word; the       *)
(* keyword lists below give the transliteration of every keyword.  The     *)
(* regular expressions of the source treat these words as units, so a      *)
(* word is one symbol and `kw in title` is membership of the symbol.       *)
(*                                                                         *)
(* Optional values (Python None) are sequences: None is <<>> and a         *)
(* present value x is <<x>>.                                               *)
(***************************************************************************)
EXTENDS Integers, Sequences, FiniteSets, TLC

\* The element of a one-element set; `TheOne({e(x) : x \in {v}})` is e(v) with
\* v computed once
TheOne(S) == CHOOSE x \in S : TRUE

None == <<>>
Some(x) == <<x>>
IsSome(o) == Len(o) > 0
Val(o) == o[1]

(***************************************************************************)
(* Characters and numbers                                                  *)
(***************************************************************************)
DigitChars == <<"0", "1", "2", "3", "4", "5", "6", "7", "8", "9">>
IsDigit(c) == \E v \in 1..10 : DigitChars[v] = c
DigitVal(c) == (CHOOSE v \in 1..10 : DigitChars[v] = c) - 1
IsSpace(c) == c = " "

RECURSIVE Pow10(_)
Pow10(n) == IF n = 0 THEN 1 ELSE 10 * Pow10(n - 1)

\* int("123") for a non-empty sequence of digits
RECURSIVE StrToInt(_)
StrToInt(ds) ==
    IF Len(ds) = 0 THEN 0
    ELSE 10 * StrToInt(SubSeq(ds, 1, Len(ds) - 1)) + DigitVal(ds[Len(ds)])

\* str(n) for n >= 0
RECURSIVE IntToStr(_)
IntToStr(n) ==
    IF n < 10 THEN <<DigitChars[n + 1]>>
    ELSE Append(IntToStr(n \div 10), DigitChars[(n % 10) + 1])

\* `kw in text`
Contains(kw, text) == \E i \in 1..Len(text) : text[i] = kw

\* str.strip()
RECURSIVE Strip(_)
Strip(text) ==
    IF Len(text) = 0 THEN text
    ELSE IF IsSpace(text[1]) THEN Strip(Tail(text))
    ELSE IF IsSpace(text[Len(text)]) THEN Strip(SubSeq(text, 1, Len(text) - 1))
    ELSE text

\* A substitution that keeps the dollar sign
DigitsOnly_KeepsDollar(text) == SelectSeq(text, LAMBDA c : IsDigit(c) \/ c = "$")

\* re.sub(r"[^\d]", "", text)
DigitsOnly(text) == SelectSeq(text, IsDigit)

(***************************************************************************)
(* Regular-expression pieces.  Each XAt(s, i) is the index of the last     *)
(* symbol of the match of X that starts at index i, or 0 when X does not   *)
(* match there.  re.search takes the leftmost start.                       *)
(***************************************************************************)
\* end of the maximal digit run starting at the digit s[i]   (\d+)
DigitRunEnd(s, i) ==
    CHOOSE e \in i..Len(s) :
        /\ \A k \in i..e : IsDigit(s[k])
        /\ (e = Len(s) \/ ~IsDigit(s[e + 1]))

\* first index >= p that holds no space, Len(s)+1 if none   (\s*)
SkipSpaces(s, p) ==
    CHOOSE q \in p..(Len(s) + 1) :
        /\ \A k \in p..(q - 1) : IsSpace(s[k])
        /\ (q = Len(s) + 1 \/ ~IsSpace(s[q]))

\* end of \d+(?:\.\d+)? starting at the digit s[i]
NumEnd(s, i) ==
    LET e == DigitRunEnd(s, i)
    IN IF e + 2 <= Len(s) /\ s[e + 1] = "." /\ IsDigit(s[e + 2])
       THEN DigitRunEnd(s, e + 2)
       ELSE e

\* leftmost start of a match, 0 if there is none
\* (re.search); ends[i] is the end of the match that starts at i, 0 for none
SearchStart(ends) ==
    IF \E i \in DOMAIN ends : ends[i] # 0
    THEN CHOOSE i \in DOMAIN ends :
            /\ ends[i] # 0
            /\ \A j \in 1..(i - 1) : ends[j] = 0
    ELSE 0

\* (?:\$|dollar)\s*(\d+(?:\.\d+)?)        processor.py:160
UsdPrefixNumStart(s, i) == SkipSpaces(s, i + 1)
UsdPrefixAt(s, i) ==
    IF s[i] \in {"$", "dollar"}
    THEN LET q == UsdPrefixNumStart(s, i)
         IN IF q <= Len(s) /\ IsDigit(s[q]) THEN NumEnd(s, q) ELSE 0
    ELSE 0

\* (?:\$)\s*(\d+(?:\.\d+)?)               processor.py:260, second pattern
DollarPrefixAt(s, i) == IF s[i] = "$" THEN UsdPrefixAt(s, i) ELSE 0

\* (\d+(?:\.\d+)?)\s*(?:dollar|\$)        processor.py:163 and :260
UsdSuffixAt(s, i) ==
    IF IsDigit(s[i])
    THEN LET q == SkipSpaces(s, NumEnd(s, i) + 1)
         IN IF q <= Len(s) /\ s[q] \in {"dollar", "$"} THEN q ELSE 0
    ELSE 0

\* position after the maximal run of (?:,\d{3}) groups starting at p
RECURSIVE CommaGroupsEnd(_, _)
CommaGroupsEnd(s, p) ==
    IF /\ p + 3 <= Len(s)
       /\ s[p] = ","
       /\ \A k \in (p + 1)..(p + 3) : IsDigit(s[k])
    THEN CommaGroupsEnd(s, p + 4)
    ELSE p

\* (\d{1,3}(?:,\d{3})*)won                processor.py:256
WonLead(s, i) ==
    {k \in 1..3 :
        /\ i + k <= Len(s)
        /\ \A j \in i..(i + k - 1) : IsDigit(s[j])
        /\ LET p == CommaGroupsEnd(s, i + k)
           IN p <= Len(s) /\ s[p] = "won"}
WonAt(s, i) ==
    IF WonLead(s, i) # {}
    THEN CommaGroupsEnd(s, i + (CHOOSE k \in WonLead(s, i) : TRUE))
    ELSE 0

\* \d+(won|%|dollar|\$)                   processor.py:273
PriceHintAt(s, i) ==
    IF /\ IsDigit(s[i])
       /\ DigitRunEnd(s, i) < Len(s)
       /\ s[DigitRunEnd(s, i) + 1] \in {"won", "%", "dollar", "$"}
    THEN DigitRunEnd(s, i) + 1
    ELSE 0

(***************************************************************************)
(* Processor.normalize_price_text                                          *)
(***************************************************************************)
USD_RATE == 1450

RECURSIVE Pow2(_)
Pow2(n) == IF n = 0 THEN 1 ELSE 2 * Pow2(n - 1)

\* 2^q mod m
RECURSIVE Pow2Mod(_, _)
Pow2Mod(q, m) == IF q = 0 THEN 1 % m ELSE (2 * Pow2Mod(q - 1, m)) % m

\* floor(log2(a / b)) for a, b > 0
RECURSIVE Log2Up(_, _)
Log2Up(a, b) == IF 2 * b <= a THEN 1 + Log2Up(a, 2 * b) ELSE 0
RECURSIVE Log2Down(_, _)
Log2Down(a, b) == IF a < b THEN Log2Down(2 * a, b) - 1 ELSE 0
FloorLog2(a, b) == IF a >= b THEN Log2Up(a, b) ELSE Log2Down(a, b)

\* int(float(x) * 1450) for the decimal x = D / 10^k, as binary floating point
\* computes it (IEEE-754 double, 53-bit significand, round to nearest).
\* float(x) is the double m / 2^q nearest to x, q = 52 - floor(log2 x), and
\* r = 10^k * m - D * 2^q is its rounding residue.  The exact product is
\* 1450 * x + 1450 * r / (10^k * 2^q); when 1450 * x is no integer the residue
\* is too small to move the floor.  When 1450 * x is the integer N the product
\* rounds to the double below N, and int() gives N - 1, exactly when the
\* residue is negative and larger than half a unit in the last place of N.
FloatTimesRate(D, k) ==
    IF D = 0 THEN 0
    ELSE IF (D * USD_RATE) % Pow10(k) # 0 THEN (D * USD_RATE) \div Pow10(k)
    ELSE LET N  == (D * USD_RATE) \div Pow10(k)
             ex == FloorLog2(D, Pow10(k))
             t  == ((D % Pow10(k)) * Pow2Mod(52 - ex, Pow10(k))) % Pow10(k)
             r  == IF 2 * t < Pow10(k) THEN 0 - t ELSE Pow10(k) - t
             s  == FloorLog2(N, 1) - ex
         IN IF r < 0 /\ 2 * USD_RATE * (0 - r) > Pow10(k) * Pow2(s)
            THEN N - 1
            ELSE N

\* The decimal a text matching \d+(?:\.\d+)? writes: units / 10^places
DecimalOf(num) ==
    LET dot  == IF Contains(".", num)
                THEN CHOOSE i \in 1..Len(num) : num[i] = "."
                ELSE Len(num) + 1
        ip   == StrToInt(SubSeq(num, 1, dot - 1))
        frac == SubSeq(num, dot + 1, Len(num))
    IN [units |-> ip * Pow10(Len(frac)) + StrToInt(frac), places |-> Len(frac)]

\* int(float(num) * 1450) for num matching \d+(?:\.\d+)?
UsdToKrw(num) == FloatTimesRate(DecimalOf(num).units, DecimalOf(num).places)

\* A normalizer that leaves the dollar sign on a converted amount
normalize_price_text_KeepsMark(text) ==
    IF ~IsSome(text) \/ Len(Val(text)) = 0 THEN None
    ELSE LET t  == Strip(Val(text))
             p1 == SearchStart([i \in 1..Len(t) |-> UsdPrefixAt(t, i)])
             p2 == SearchStart([i \in 1..Len(t) |-> UsdSuffixAt(t, i)])
         IN IF p1 # 0
            THEN Some(<<"$">> \o IntToStr(UsdToKrw(
                    SubSeq(t, UsdPrefixNumStart(t, p1), UsdPrefixAt(t, p1)))))
            ELSE IF p2 # 0
            THEN Some(<<"$">> \o IntToStr(UsdToKrw(SubSeq(t, p2, NumEnd(t, p2)))))
            ELSE IF Len(DigitsOnly(t)) > 0 THEN Some(DigitsOnly(t))
            ELSE None

\* text is Optional[str]; the result is Optional[str]
normalize_price_text(text) ==
    IF ~IsSome(text) \/ Len(Val(text)) = 0 THEN None
    ELSE LET t  == Strip(Val(text))
             p1 == SearchStart([i \in 1..Len(t) |-> UsdPrefixAt(t, i)])
             p2 == SearchStart([i \in 1..Len(t) |-> UsdSuffixAt(t, i)])
         IN IF p1 # 0
            THEN Some(IntToStr(UsdToKrw(
                    SubSeq(t, UsdPrefixNumStart(t, p1), UsdPrefixAt(t, p1)))))
            ELSE IF p2 # 0
            THEN Some(IntToStr(UsdToKrw(SubSeq(t, p2, NumEnd(t, p2)))))
            ELSE IF Len(DigitsOnly(t)) > 0 THEN Some(DigitsOnly(t))
            ELSE None

(***************************************************************************)
(* Processor.extract_quantity                                              *)
(***************************************************************************)
\* byeong, roll, pack, gae, mae, can, jeong, po, gu, box, bong, ip, pete,
\* pet, beon, mukkeum, pogi: the unit words of the pattern at processor.py:195
QUANTITY_UNITS ==
    {"byeong", "roll", "pack", "gae", "mae", "can", "jeong", "po", "gu", "box",
     "bong", "ip", "pete", "pet", "beon", "mukkeum", "pogi"}
QUANTITY_CAP == 10000

\* (\d+)\s*(unit)
QuantityAt(s, i) ==
    IF IsDigit(s[i])
    THEN LET q == SkipSpaces(s, DigitRunEnd(s, i) + 1)
         IN IF q <= Len(s) /\ s[q] \in QUANTITY_UNITS THEN q ELSE 0
    ELSE 0

\* product of the numbers of re.findall's matches in s[from..]; findall takes
\* the leftmost match, then goes on after its end
\* Python integers are unbounded and the result is min(total, 10000); the
\* numbers are kept up to the cap, which leaves min(total, 10000) as it is
\* (a factor 0 gives 0, any other product is at least each of its factors)
Capped(n) == IF n < QUANTITY_CAP THEN n ELSE QUANTITY_CAP
RECURSIVE CappedInt(_)
CappedInt(ds) ==
    IF Len(ds) = 0 THEN 0
    ELSE Capped(10 * CappedInt(SubSeq(ds, 1, Len(ds) - 1)) + DigitVal(ds[Len(ds)]))

RECURSIVE QuantityProduct(_, _)
QuantityProduct(s, from) ==
    IF from > Len(s) THEN 1
    ELSE IF QuantityAt(s, from) # 0
         THEN Capped(CappedInt(SubSeq(s, from, DigitRunEnd(s, from)))
                     * QuantityProduct(s, QuantityAt(s, from) + 1))
         ELSE QuantityProduct(s, from + 1)

HasQuantity(s) == \E i \in 1..Len(s) : QuantityAt(s, i) # 0

\* str.lower(): "PET" is the one upper-case word of the texts of the model
Lower(text) == [i \in 1..Len(text) |-> IF text[i] = "PET" THEN "pet" ELSE text[i]]

\* The number of the first token alone
extract_quantity_FirstTokenOnly(text) ==
    TheOne({ IF first = 0 THEN 1
             ELSE CappedInt(SubSeq(Lower(text), first, DigitRunEnd(Lower(text), first)))
             : first \in {SearchStart([i \in 1..Len(text) |-> QuantityAt(Lower(text), i)])} })

extract_quantity(text) ==
    TheOne({ IF ~HasQuantity(t) THEN 1
             ELSE TheOne({ IF total < QUANTITY_CAP THEN total ELSE QUANTITY_CAP
                           : total \in {QuantityProduct(t, 1)} })
             : t \in {Lower(text)} })

(***************************************************************************)
(* Processor keyword lists (processor.py:14-19), in source order           *)
(***************************************************************************)
\* jongryo (ended), pumjeol (sold out), maejin (sold out), chwiso (cancelled),
\* gwanggo (ad), jehyu (affiliate), cheheomdan (review panel)
DROP_KEYWORDS ==
    <<"jongryo", "pumjeol", "maejin", "chwiso", "gwanggo", "jehyu", "cheheomdan">>
\* yeokdae, daebak, oryu, mubae, muryobaesong
HIGH_DISCOUNT_KEYWORDS == <<"yeokdae", "daebak", "oryu", "mubae", "muryobaesong">>
\* chucheon, gangchu, pilgu, tapseung
POSITIVE_KEYWORDS == <<"chucheon", "gangchu", "pilgu", "tapseung">>
\* eopja, viral, mangseol, bissam
NEGATIVE_KEYWORDS == <<"eopja", "viral", "mangseol", "bissam">>
\* mubae, muryobaesong, "baesongbi muryo"   (processor.py:343)
FREE_SHIPPING_MARKERS == <<"mubae", "muryobaesong", "baesongbi_muryo">>

AnyKeyword(kws, text) == \E k \in 1..Len(kws) : Contains(kws[k], text)
FirstKeyword(kws, text) ==
    kws[CHOOSE k \in 1..Len(kws) :
            /\ Contains(kws[k], text)
            /\ \A j \in 1..(k - 1) : ~Contains(kws[j], text)]
CountKeywords(kws, text) == Cardinality({k \in 1..Len(kws) : Contains(kws[k], text)})

(***************************************************************************)
(* Deal (app/models/deal.py).  votes and comments are carried to the       *)
(* classifier prompt only and are left out.  posted_at and the clock are   *)
(* whole minutes.                                                          *)
(***************************************************************************)
Reason(kind, kw, a, b, c, d) ==
    Some([kind |-> kind, kw |-> kw, a |-> a, b |-> b, c |-> c, d |-> d])

NewDeal(id, source, title, link, price, posted_at, comment_count) ==
    [id |-> id, source |-> source, title |-> title, link |-> link,
     discount_price |-> price, posted_at |-> posted_at,
     comment_count |-> comment_count,
     naver_price |-> None, savings |-> None, is_hotdeal |-> None,
     category |-> None, embed_text |-> None, embedding |-> None,
     score |-> 0, status |-> "READY", reason |-> None,
     ai_summary |-> None, sentiment_score |-> None]

\* Python truthiness of an Optional[str]
StrTruthy(o) == IsSome(o) /\ Len(Val(o)) > 0

(***************************************************************************)
(* Processor._apply_hard_filter: [drop |-> returned value, deal |-> the    *)
(* deal as the call leaves it]                                             *)
(***************************************************************************)
MIN_COMMENTS == 3
FRESH_MINUTES == 30

MinutesElapsed(deal, now) == now - deal.posted_at

Dropped(deal, reason) ==
    [drop |-> TRUE, deal |-> [deal EXCEPT !.status = "DROP", !.reason = reason]]

\* A freshness exception that still covers a listing exactly 30 minutes old
LowComments_FreshInclusive(deal, now) ==
    /\ deal.comment_count < MIN_COMMENTS
    /\ ~(MinutesElapsed(deal, now) <= FRESH_MINUTES /\ deal.comment_count >= 1)

\* step 2: the engagement floor with its freshness exception
LowComments(deal, now) ==
    /\ deal.comment_count < MIN_COMMENTS
    /\ ~(MinutesElapsed(deal, now) < FRESH_MINUTES /\ deal.comment_count >= 1)

\* processor.py:255-262: the price taken from the title when the crawler
\* found none
PriceFromTitle(deal) ==
    IF StrTruthy(deal.discount_price) THEN deal.discount_price
    ELSE LET t  == deal.title
             w  == SearchStart([i \in 1..Len(t) |-> WonAt(t, i)])
             u  == SearchStart([i \in 1..Len(t) |-> UsdSuffixAt(t, i)])
             u2 == SearchStart([i \in 1..Len(t) |-> DollarPrefixAt(t, i)])
         IN IF w # 0 THEN Some(SubSeq(t, w, WonAt(t, w) - 1))
            ELSE IF u # 0 THEN Some(SubSeq(t, u, UsdSuffixAt(t, u)))
            ELSE IF u2 # 0 THEN Some(SubSeq(t, u2, DollarPrefixAt(t, u2)))
            ELSE deal.discount_price

\* A fallback that lets every title through
HasPriceInTitle_Always(deal) == TRUE

HasPriceInTitle(deal) == SearchStart([i \in 1..Len(deal.title) |-> PriceHintAt(deal.title, i)]) # 0

\* step 3: price extraction, normalization and the unpriced reject
PriceCheck(deal) ==
    TheOne({ TheOne({
        IF IsSome(normalized)
        THEN [drop |-> FALSE, deal |-> [d1 EXCEPT !.discount_price = normalized]]
        ELSE IF ~HasPriceInTitle(d1)
        THEN Dropped(d1, Reason("No Price Found", "", 0, 0, 0, 0))
        ELSE [drop |-> FALSE, deal |-> d1]
        : normalized \in {normalize_price_text(d1.discount_price)} })
     : d1 \in {[deal EXCEPT !.discount_price = PriceFromTitle(deal)]} })

\* The engagement floor tried before the banned keywords
_apply_hard_filter_CommentsFirst(deal, now) ==
    IF LowComments(deal, now)
    THEN Dropped(deal, Reason("Low Comments", "", deal.comment_count, 0, 0, 0))
    ELSE IF AnyKeyword(DROP_KEYWORDS, deal.title)
    THEN Dropped(deal, Reason("Keyword", FirstKeyword(DROP_KEYWORDS, deal.title), 0, 0, 0, 0))
    ELSE PriceCheck(deal)

_apply_hard_filter(deal, now) ==
    IF AnyKeyword(DROP_KEYWORDS, deal.title)
    THEN Dropped(deal, Reason("Keyword", FirstKeyword(DROP_KEYWORDS, deal.title), 0, 0, 0, 0))
    ELSE IF LowComments(deal, now)
    THEN Dropped(deal, Reason("Low Comments", "", deal.comment_count, 0, 0, 0))
    ELSE PriceCheck(deal)

(***************************************************************************)
(* Processor._calculate_velocity: (comment_count + 1) / (T + 10)^1.5 * 100 *)
(* kept as the pair [num, base], standing for num / base^1.5               *)
(***************************************************************************)
_calculate_velocity(deal, now) ==
    LET elapsed == IF MinutesElapsed(deal, now) > 0 THEN MinutesElapsed(deal, now) ELSE 0
    IN [num |-> (deal.comment_count + 1) * 100, base |-> elapsed + 10]

\* velocity > 0.5, i.e. 2*num > base^1.5, squared        processor.py:313
VelocityIsFast(v) == (2 * v.num) * (2 * v.num) > v.base * v.base * v.base

(***************************************************************************)
(* NaverSearchService.search_lowest_price (app/services/naver.py).  The    *)
(* value it returns is None or int(lprice); a value is the record          *)
(* [kind, price, title] with kind "none", "int" or "dict" ("dict" is the   *)
(* shape {price, title} that _calculate_soft_score subscripts).            *)
(***************************************************************************)
NaverNone == [kind |-> "none", price |-> 0, title |-> <<>>]
NaverInt(p) == [kind |-> "int", price |-> p, title |-> <<>>]
NaverDict(p, t) == [kind |-> "dict", price |-> p, title |-> t]

\* A lookup that answers a failed request with a candidate of price 0
search_lowest_price_CandidateOnFailure(ok, lprice) ==
    IF ~ok THEN NaverDict(0, <<>>)
    ELSE IF IsSome(lprice) /\ Len(Val(lprice)) > 0 THEN NaverInt(StrToInt(Val(lprice)))
    ELSE NaverNone

\* naver.py:30-50: every failure (no credentials, status # 200, no items,
\* an exception) returns None; otherwise int(lprice) if lprice else None
search_lowest_price(ok, lprice) ==
    IF ~ok THEN NaverNone
    ELSE IF IsSome(lprice) /\ Len(Val(lprice)) > 0 THEN NaverInt(StrToInt(Val(lprice)))
    ELSE NaverNone

\* `if naver_result:`
NaverTruthy(r) == r.kind = "dict" \/ (r.kind = "int" /\ r.price # 0)
\* naver_result["price"] raises TypeError unless the result is a dict
SubscriptRaises(r) == r.kind # "dict"

(***************************************************************************)
(* Processor._calculate_soft_score                                         *)
(***************************************************************************)
SHIPPING_FEE == 3000
HUGE_SAVINGS == 30000

\* A score that takes a point off a listing with fewer than 10 comments
BaseScore_PenalizesFewComments(deal, now) ==
      (IF StrTruthy(deal.discount_price) THEN 2 ELSE 0)
    + (IF AnyKeyword(HIGH_DISCOUNT_KEYWORDS, deal.title) THEN 2 ELSE 0)
    + (IF deal.comment_count >= 10 THEN 1 ELSE -1)
    + (IF AnyKeyword(POSITIVE_KEYWORDS, deal.title) THEN 1 ELSE 0)
    - 3 * CountKeywords(NEGATIVE_KEYWORDS, deal.title)
    + (IF VelocityIsFast(_calculate_velocity(deal, now)) THEN 1 ELSE 0)

\* processor.py:284-314: the signals before the price comparison
BaseScore(deal, now) ==
      (IF StrTruthy(deal.discount_price) THEN 2 ELSE 0)
    + (IF AnyKeyword(HIGH_DISCOUNT_KEYWORDS, deal.title) THEN 2 ELSE 0)
    + (IF deal.comment_count >= 10 THEN 1 ELSE 0)
    + (IF AnyKeyword(POSITIVE_KEYWORDS, deal.title) THEN 1 ELSE 0)
    - 3 * CountKeywords(NEGATIVE_KEYWORDS, deal.title)
    + (IF VelocityIsFast(_calculate_velocity(deal, now)) THEN 1 ELSE 0)

\* processor.py:321-326: Optional[int]
DealPrice(deal) ==
    IF StrTruthy(deal.discount_price) /\ Len(DigitsOnly(Val(deal.discount_price))) > 0
    THEN Some(StrToInt(DigitsOnly(Val(deal.discount_price))))
    ELSE None

\* `if deal_price:` the lookup is called only for a non-zero price
LookupCalled(deal) == IsSome(DealPrice(deal)) /\ Val(DealPrice(deal)) # 0

\* processor.py:338-351: costs and quantities of both sides; the unit prices
\* are the fractions dealCost/dealQty and naverCost/naverQty
UnitCosts(deal, r) ==
    [dealCost  |-> Val(DealPrice(deal))
                   + (IF AnyKeyword(FREE_SHIPPING_MARKERS, deal.title) THEN 0 ELSE SHIPPING_FEE),
     dealQty   |-> extract_quantity(deal.title),
     naverCost |-> r.price + SHIPPING_FEE,
     naverQty  |-> extract_quantity(r.title)]

\* deal_unit_price > naver_unit_price                     processor.py:354
TooExpensive(u) == u.dealCost * u.naverQty > u.naverCost * u.dealQty

\* int((naver_unit_price - deal_unit_price) * deal_qty)   processor.py:361
Savings(u) == (u.naverCost * u.dealQty - u.dealCost * u.naverQty) \div u.naverQty

\* processor.py:363-375: ratio and savings bonuses
RatioBonus(u) ==
    IF u.dealCost * u.naverQty * 100 < 85 * u.naverCost * u.dealQty THEN 3
    ELSE IF u.dealCost * u.naverQty * 100 < 90 * u.naverCost * u.dealQty THEN 2
    ELSE 0
SavingsBonus(sv) == IF sv > HUGE_SAVINGS THEN 2 ELSE 0

\* r is the value search_lowest_price returned (read only when the lookup is
\* called); the result is the deal as the call leaves it
_calculate_soft_score(deal, now, r) ==
    LET score == BaseScore(deal, now)
    IN IF ~LookupCalled(deal) \/ ~NaverTruthy(r)
       THEN [deal EXCEPT !.score = score]
       ELSE IF SubscriptRaises(r)
       THEN \* TypeError, caught at processor.py:376
            [deal EXCEPT !.score = score]
       ELSE LET u  == UnitCosts(deal, r)
                d1 == [deal EXCEPT !.naver_price = Some(r.price)]
            IN IF TooExpensive(u)
               THEN [d1 EXCEPT !.status = "DROP",
                               !.reason = Reason("Expensive", "", u.dealCost, u.dealQty,
                                                 u.naverCost, u.naverQty)]
               ELSE [d1 EXCEPT !.savings = Some(Savings(u)),
                               !.score = score + RatioBonus(u) + SavingsBonus(Savings(u))]

(***************************************************************************)
(* Processor.process_deal                                                  *)
(***************************************************************************)
SCORE_THRESHOLD == 0

\* A threshold that also drops the score 0
Threshold_DropsZero(deal) ==
    IF deal.score <= SCORE_THRESHOLD
    THEN [deal EXCEPT !.status = "DROP",
                      !.reason = Reason("Low Score", "", deal.score, 0, 0, 0)]
    ELSE [deal EXCEPT !.status = "READY"]

Threshold(deal) ==
    IF deal.score < SCORE_THRESHOLD
    THEN [deal EXCEPT !.status = "DROP",
                      !.reason = Reason("Low Score", "", deal.score, 0, 0, 0)]
    ELSE [deal EXCEPT !.status = "READY"]

process_deal(deal, now, r) ==
    TheOne({ IF hf.drop THEN hf.deal
             ELSE TheOne({ IF scored.status = "DROP" THEN scored ELSE Threshold(scored)
                           : scored \in {_calculate_soft_score(hf.deal, now, r)} })
             : hf \in {_apply_hard_filter(deal, now)} })

(***************************************************************************)
(* Result cache (Processor._cache).  A key is the text title + link; md5   *)
(* is taken to be injective on it.  The cache is a function from the keys  *)
(* it holds to entries.                                                    *)
(***************************************************************************)
\* A key that also covers the id of the listing
_get_cache_key_WithId(deal) == deal.title \o deal.link \o <<deal.id>>

_get_cache_key(deal) == deal.title \o deal.link

\* datetime.now().date(): the calendar day of the clock
MINUTES_PER_DAY == 1440
Today(now) == now \div MINUTES_PER_DAY

CacheEntry(deal, now) ==
    [is_hotdeal |-> deal.is_hotdeal, category |-> deal.category,
     savings |-> deal.savings, crawled_at |-> Today(now)]

\* update_cache: the new value of Processor._cache
update_cache(cache, deal, now) ==
    [k \in (DOMAIN cache) \cup {_get_cache_key(deal)} |->
        IF k = _get_cache_key(deal) THEN CacheEntry(deal, now) ELSE cache[k]]

\* A lookup that does not look at the date of the entry
CacheFresh_IgnoresDate(entry, now) == TRUE

\* the date check of check_cache
CacheFresh(entry, now) == entry.crawled_at = Today(now)

\* `if deal.is_hotdeal:` on an Optional[bool]
HotTruthy(h) == IsSome(h) /\ Val(h)

CachedStatus(h) == IF HotTruthy(h) THEN "HOT (Cached)" ELSE "DROP (Cached)"

\* check_cache: [hit |-> returned value, deal |-> the deal as the call leaves it]
check_cache(cache, deal, now) ==
    LET key == _get_cache_key(deal)
    IN IF key \in DOMAIN cache /\ CacheFresh(cache[key], now)
       THEN [hit |-> TRUE,
             deal |-> [deal EXCEPT !.is_hotdeal = cache[key].is_hotdeal,
                                   !.category = cache[key].category,
                                   !.savings = cache[key].savings,
                                   !.status = CachedStatus(cache[key].is_hotdeal)]]
       ELSE [hit |-> FALSE, deal |-> deal]

(***************************************************************************)
(* Analyzer (app/core/analyzer.py)                                         *)
(***************************************************************************)
\* app/models/enums.py: the values of Category
CATEGORY_VALUES == {"Food", "Drink", "Toiletries", "Office", "Others", "DROP"}

\* analyzer.py:112-118: Category(raw) or the fallback OTHERS; a missing key
\* reads "OTHERS", which is no value of Category
MapCategory(raw) ==
    IF IsSome(raw) /\ Val(raw) \in CATEGORY_VALUES THEN raw ELSE Some("Others")

\* One element of the response's "results" as .get() reads it: a missing key
\* is None.  analyzer.py:107-127
ApplyResult(deal, res) ==
    LET hot == IF IsSome(res.is_hotdeal) THEN res.is_hotdeal ELSE Some(FALSE)
    IN [deal EXCEPT !.is_hotdeal = hot,
                    !.category = MapCategory(res.category),
                    !.ai_summary = IF IsSome(res.reason) THEN res.reason ELSE Some(""),
                    !.sentiment_score = IF IsSome(res.sentiment) THEN res.sentiment ELSE Some(50),
                    !.embed_text = IF IsSome(res.embed_text) THEN res.embed_text ELSE Some(<<>>),
                    !.status = IF HotTruthy(hot) THEN "HOT" ELSE "DROP"]

\* A missing id treated as a failed classification
ApplyMissing_AsError(deal) == [deal EXCEPT !.status = "ERROR"]

\* analyzer.py:128-135: the id is missing from the response
ApplyMissing(deal) ==
    [deal EXCEPT !.is_hotdeal = Some(FALSE),
                 !.category = Some("DROP"),
                 !.ai_summary = Some("AI: DROP"),
                 !.sentiment_score = Some(0),
                 !.embed_text = Some(<<>>),
                 !.status = "DROP"]

\* A fallback that defaults a failed classification to DROP
ErrorStatus_DefaultsToDrop(status) == IF status = "READY" THEN "DROP" ELSE status

\* analyzer.py:146-148: the fallback of the except branch
ErrorStatus(status) == IF status = "READY" THEN "ERROR" ELSE status
ApplyError(deal) == [deal EXCEPT !.status = ErrorStatus(deal.status)]

\* _generate_with_fallback: TRUE when it returns a response, FALSE when it
\* raises.  primary is "ok", "rate_limit" (429) or "error"
_generate_with_fallback(primary, fallback_ok) ==
    IF primary = "ok" THEN TRUE
    ELSE IF primary = "rate_limit" THEN fallback_ok
    ELSE FALSE

\* How the try block of analyze_batch ends: "ok", or the exception path taken
\* before any deal is touched ("raised": the call raised; "undecodable":
\* json.loads or the reading of the results raised)
TryOutcome(primary, fallback_ok, decodable) ==
    IF ~_generate_with_fallback(primary, fallback_ok) THEN "raised"
    ELSE IF ~decodable THEN "undecodable"
    ELSE "ok"

\* the deal after the try/except of analyze_batch; results maps the deal ids
\* of the response to result records
AnalyzeDeal(deal, outcome, results) ==
    IF outcome = "ok"
    THEN IF deal.id \in DOMAIN results
         THEN ApplyResult(deal, results[deal.id])
         ELSE ApplyMissing(deal)
    ELSE ApplyError(deal)

\* _generate_embeddings, analyzer.py:195-221
WantsEmbedding(deal) == HotTruthy(deal.is_hotdeal) /\ StrTruthy(deal.embed_text)
EmbedDeal(deal, embed_ok) ==
    IF WantsEmbedding(deal) /\ embed_ok
    THEN [deal EXCEPT !.embedding = Some("vector")]
    ELSE deal

\* analyze_batch for one deal of the batch; client is FALSE when
\* genai.Client could not be built (analyzer.py:29-36)
analyze_batch(deal, client, outcome, results, embed_ok) ==
    IF ~client THEN deal
    ELSE EmbedDeal(AnalyzeDeal(deal, outcome, results), embed_ok)

(***************************************************************************)
(* Database (app/core/database.py).  The hotdeals table is a set of        *)
(* [id, status, posted_at] rows.                                                     *)
(***************************************************************************)
\* database.py:27-49: building the payload reads deal.original_price and
\* deal.image_url, which Deal (deal.py:6-28) does not declare; the
\* AttributeError is caught at database.py:54
PayloadRaises(deal) == TRUE

save_deal(table, client, deal, upsert_ok) ==
    IF ~client THEN table
    ELSE IF ~HotTruthy(deal.is_hotdeal) THEN table
    ELSE IF PayloadRaises(deal) \/ ~upsert_ok THEN table
    ELSE {row \in table : row.id # deal.id}
         \cup {[id |-> deal.id, status |-> deal.status, posted_at |-> deal.posted_at]}

(***************************************************************************)
(* The run: run_once.run_pipeline with BaseCrawler.process                 *)
(***************************************************************************)
\* Bounds of the model
MaxRuns == 2
MaxRows == 2
MaxTicks == 1

\* The clock starts 35 minutes before midnight and advances by 25 or 50
\* minutes, so that the next run falls on the same day or on the next one
NOW0 == MINUTES_PER_DAY - 35
TICK_MINUTES == FRESH_MINUTES - 5
TickSteps == {TICK_MINUTES, 2 * TICK_MINUTES}

\* run_once.py:25-29; the crawl_list of Arca and FMKorea filters its rows
\* (arca.py:122, fmkorea.py:129), the one of Ppomppu does not
CRAWLERS == <<"Ppomppu", "Arca", "FMKorea">>
ListFilters(source) == source \in {"Arca", "FMKorea"}

\* Titles of the listings the boards show
T_PRICED  == <<"x", "9", ",", "0", "0", "0", "won">>
T_DEAL    == <<"yeokdae", "mubae", "9", ",", "0", "0", "0", "won">>
T_BANNED  == <<"pumjeol", "x">>
T_NEG     == <<"eopja", "bissam", "5", "0", "0", "won">>
T_PERCENT == <<"x", "5", "0", "%">>
PRODUCT_LINK == <<"shop/1">>

Listing(id, source, title, link, price, posted_at, comment_count) ==
    [id |-> id, source |-> source, title |-> title, link |-> link, price |-> price,
     posted_at |-> posted_at, comment_count |-> comment_count]

\* The rows the boards can show.  Ppomppu rows carry no price field
\* (community_1.py:107-115).
Catalog ==
    { Listing("p1", "Ppomppu", T_PRICED, <<"pp/1">>, None, NOW0 - 10, 1),
      Listing("p2", "Ppomppu", T_DEAL, <<"pp/2">>, None, NOW0 - 40, 12),
      Listing("p3", "Ppomppu", T_BANNED, <<"pp/3">>, None, NOW0 - 40, 0),
      Listing("a1", "Arca", T_NEG, <<"arca/1">>, Some(<<"5", "0", "0", "won">>), NOW0 - 40, 5),
      Listing("f1", "FMKorea", T_PERCENT, <<"fm/1">>, Some(<<"x">>), NOW0 - 40, 4) }

\* What crawl_detail can leave in deal.link: the product link, or for a
\* Ppomppu row, whose link is absolute, the link of the list row (no product
\* link found, or the page failed to load)
DetailLinks(deal) ==
    IF deal.source = "Ppomppu" THEN {deal.link, PRODUCT_LINK} ELSE {PRODUCT_LINK}

\* The answers of the price lookup service
NaverOutcomes ==
    { search_lowest_price(ok, lprice) :
        ok \in BOOLEAN, lprice \in {None, Some(<<"0">>), Some(<<"1", "2", "0", "0", "0">>)} }

\* Elements of the classifier's "results"
ClassifierResult(hot, category, embed) ==
    [is_hotdeal |-> hot, category |-> category, reason |-> Some("summary"),
     sentiment |-> Some(80), embed_text |-> embed]
ClassifierResults ==
    { ClassifierResult(Some(TRUE), Some("Food"), Some(<<"e">>)),
      ClassifierResult(Some(FALSE), Some("Games"), None) }

VARIABLES
    now,                  \* the clock, in minutes
    ticks,                \* how often the clock advanced
    runs,                 \* how many runs started
    cacheFile,            \* the content of cache.json
    pc,                   \* where run_pipeline stands
    db_client,            \* Database.client is set (database.py:8-13): None until
                          \* the run first reads it, then Some(TRUE) or Some(FALSE)
    _cache,               \* Processor._cache
    _cache_loaded,        \* Processor._cache_loaded
    crawler,              \* index into CRAWLERS
    rows,                 \* rows read by crawl_list so far, in all runs
    listed,               \* the deals crawl_list returned to process
    full_deals,           \* BaseCrawler.process: full_deals
    seen_ids,             \* BaseCrawler.process: seen_ids
    all_deals,            \* run_pipeline: all_deals
    idx,                  \* position of the loops over all_deals / results
    ready_deals,          \* run_pipeline: ready_deals, as indexes into all_deals
    counters,             \* dropped_count, cached_hotdeal_count, cached_savings, hotdeal_count
    outcome,              \* how analyze_batch ended in this run ("" before)
    hotdeals,             \* the hotdeals table
    calls,                \* what this run handed to the Database
    arg,                  \* the inputs of a single call of a Processor function
    ret                   \* what that call returned and left in its deal

clockVars == <<now, ticks>>
crawlVars == <<crawler, rows, listed, full_deals, seen_ids>>
cacheVars == <<cacheFile, _cache, _cache_loaded>>
loopVars  == <<all_deals, idx, ready_deals, counters, outcome>>
dbVars    == <<db_client, hotdeals, calls>>
callVars  == <<arg, ret>>
vars == <<clockVars, runs, pc, crawlVars, cacheVars, loopVars, dbVars, callVars>>

EmptyCache == [k \in {} |-> 0]
NoCounters ==
    [dropped_count |-> 0, cached_hotdeal_count |-> 0, cached_savings |-> 0,
     hotdeal_count |-> 0]
NoCalls == [save_deal |-> <<>>, save_app_stats |-> <<>>, crawl_stats |-> <<>>,
            clean_old_deals |-> <<>>]

\* The deal records of the model carry the list of the operations applied to
\* them (ops), which the program does not hold
Op(deal, op) == [deal EXCEPT !.ops = Append(deal.ops, op)]
CrawledDeal(l) ==
    [ops |-> <<>>] @@
    NewDeal(l.id, l.source, l.title, l.link, l.price, l.posted_at, l.comment_count)

\* No single call is under way
NoDeal == NewDeal("", "", <<>>, <<>>, None, 0, 0)
NoArg == [fn |-> "", deal |-> NoDeal, ok |-> FALSE, lprice |-> None, text |-> None]
NoRet == [done |-> FALSE, drop |-> FALSE, deal |-> NoDeal, text |-> None, n |-> 0]

ProcessReset ==
    /\ _cache = EmptyCache /\ _cache_loaded = FALSE
    /\ crawler = 1 /\ listed = <<>> /\ full_deals = <<>> /\ seen_ids = {}
    /\ all_deals = <<>> /\ idx = 1 /\ ready_deals = <<>>
    /\ counters = NoCounters /\ outcome = ""
    /\ calls = NoCalls

Init ==
    /\ now = NOW0 /\ ticks = 0 /\ runs = 0
    /\ cacheFile = EmptyCache
    /\ pc = "idle"
    /\ db_client = None
    /\ hotdeals = {}
    /\ rows = 0
    /\ ProcessReset
    /\ arg = NoArg /\ ret = NoRet

\* Time passes between two runs; a run is taken to read one clock value
Tick(minutes) ==
    /\ pc = "done"
    /\ runs < MaxRuns
    /\ ticks < MaxTicks
    /\ ticks' = ticks + 1
    /\ now' = now + minutes
    /\ UNCHANGED <<callVars, runs, pc, crawlVars, cacheVars, loopVars, dbVars>>

\* A new process starts run_pipeline
StartRun ==
    /\ pc \in {"idle", "done"}
    /\ runs < MaxRuns
    /\ runs' = runs + 1
    /\ pc' = "list"
    /\ _cache' = EmptyCache /\ _cache_loaded' = FALSE
    /\ crawler' = 1 /\ listed' = <<>> /\ full_deals' = <<>>
    /\ seen_ids' = {}
    /\ all_deals' = <<>> /\ idx' = 1 /\ ready_deals' = <<>>
    /\ counters' = NoCounters /\ outcome' = ""
    /\ calls' = NoCalls
    /\ db_client' = None
    /\ UNCHANGED <<callVars, clockVars, cacheFile, rows, hotdeals>>

\* crawl_list reads one row: the deal is built and, for Arca and FMKorea,
\* passed through the hard filter and discarded on a reject.  Rows older
\* than 24 hours end the crawl; Ppomppu skips an id it has seen.
CrawlRow(l) ==
    /\ pc = "list"
    /\ rows < MaxRows
    /\ l.source = CRAWLERS[crawler]
    /\ l.posted_at <= now
    /\ ~(l.posted_at < now - MINUTES_PER_DAY)
    /\ (l.source = "Ppomppu" => \A k \in 1..Len(listed) : listed[k].id # l.id)
    /\ rows' = rows + 1
    /\ \E hf \in {_apply_hard_filter(CrawledDeal(l), now)} :
          listed' = IF ~ListFilters(l.source) THEN Append(listed, CrawledDeal(l))
                    ELSE IF hf.drop THEN listed
                    ELSE Append(listed, Op(hf.deal, "hard_list"))
    /\ UNCHANGED <<callVars, clockVars, runs, pc, crawler, full_deals, seen_ids, cacheVars,
                   loopVars, dbVars>>

\* crawl_list returns; BaseCrawler.process starts its loop
ListDone ==
    /\ pc = "list"
    /\ pc' = "detail"
    /\ seen_ids' = {}
    /\ UNCHANGED <<callVars, clockVars, runs, crawler, rows, listed, full_deals, cacheVars,
                   loopVars, dbVars>>

\* One iteration of the loop of BaseCrawler.process (base.py:40-63)
ProcessListed(link) ==
    /\ pc = "detail"
    /\ listed # <<>>
    /\ \E deal \in {Head(listed)} : \E hf \in {_apply_hard_filter(deal, now)} :
          /\ link \in DetailLinks(deal)
          /\ IF deal.id \in seen_ids
             THEN link = deal.link /\ UNCHANGED <<full_deals, seen_ids>>
             ELSE /\ seen_ids' = seen_ids \cup {deal.id}
                  /\ IF hf.drop
                     THEN /\ link = deal.link
                          /\ full_deals' = Append(full_deals, Op(hf.deal, "hard_early"))
                     ELSE full_deals' =
                            Append(full_deals,
                                   [Op(hf.deal, "hard_early") EXCEPT !.link = link])
    /\ listed' = Tail(listed)
    /\ UNCHANGED <<callVars, clockVars, runs, pc, crawler, rows, cacheVars, loopVars, dbVars>>

\* process returns; run_pipeline extends all_deals and goes to the next
\* crawler, or to the filter loop after the last one
CrawlerDone ==
    /\ pc = "detail"
    /\ listed = <<>>
    /\ all_deals' = all_deals \o full_deals
    /\ full_deals' = <<>>
    /\ seen_ids' = {}
    /\ IF crawler < Len(CRAWLERS)
       THEN crawler' = crawler + 1 /\ pc' = "list"
       ELSE crawler' = crawler /\ pc' = "check"
    /\ UNCHANGED <<callVars, clockVars, runs, rows, listed, cacheVars, idx, ready_deals,
                   counters, outcome, dbVars>>

\* Reading and writing cache.json is taken to succeed
FileOutcomes == {TRUE}

\* Processor._load_cache: the value of Processor._cache after the call
_load_cache(cache, loaded, file, load_ok) ==
    IF loaded THEN cache
    ELSE IF load_ok THEN file
    ELSE cache

\* A batch that takes every processed deal
IsReady_TakesAll(deal) == TRUE

\* run_once.py:66: the deals that go into the batch
IsReady(deal) == deal.status = "READY"

\* run_once.py:56-62: the cache lookup of the deal at idx; a hit ends the
\* iteration, a miss goes on to process_deal
CheckCache(load_ok) ==
    /\ pc = "check"
    /\ idx <= Len(all_deals)
    /\ LET cache == _load_cache(_cache, _cache_loaded, cacheFile, load_ok)
           res   == check_cache(cache, all_deals[idx], now)
       IN /\ _cache' = cache
          /\ _cache_loaded' = TRUE
          /\ IF res.hit
             THEN /\ all_deals' = [all_deals EXCEPT ![idx] = Op(res.deal, "hit")]
                  /\ counters' =
                       IF HotTruthy(res.deal.is_hotdeal)
                       THEN [counters EXCEPT
                               !.cached_hotdeal_count = @ + 1,
                               !.cached_savings =
                                   IF IsSome(res.deal.savings) /\ Val(res.deal.savings) # 0
                                   THEN @ + Val(res.deal.savings) ELSE @]
                       ELSE counters
                  /\ idx' = idx + 1
                  /\ pc' = "check"
             ELSE /\ all_deals' = [all_deals EXCEPT ![idx] = Op(res.deal, "miss")]
                  /\ pc' = "process"
                  /\ UNCHANGED <<idx, counters>>
    /\ UNCHANGED <<callVars, clockVars, runs, crawlVars, cacheFile, ready_deals, outcome, dbVars>>

\* The operations process_deal applies to the deal
ProcessOps(deal, res) ==
    LET ran == IF _apply_hard_filter(deal, now).drop THEN <<"hard">> ELSE <<"hard", "soft">>
    IN [res EXCEPT !.ops = deal.ops \o ran]

\* run_once.py:64-70: process_deal on the deal at idx; r is the answer of the
\* price lookup
ProcessDeal(r) ==
    /\ pc = "process"
    /\ LookupCalled(_apply_hard_filter(all_deals[idx], now).deal) \/ r = NaverNone
    /\ \E res \in {ProcessOps(all_deals[idx], process_deal(all_deals[idx], now, r))} :
          /\ all_deals' = [all_deals EXCEPT ![idx] = res]
          /\ IF IsReady(res)
             THEN ready_deals' = Append(ready_deals, idx) /\ UNCHANGED counters
             ELSE /\ counters' = [counters EXCEPT !.dropped_count = @ + 1]
                  /\ UNCHANGED ready_deals
    /\ idx' = idx + 1
    /\ pc' = "check"
    /\ UNCHANGED <<callVars, clockVars, runs, crawlVars, cacheVars, outcome, dbVars>>

\* run_once.py:74-76: with nothing to analyze the run returns
ReturnsEarly(ready) == ready = <<>>

\* The loop over all_deals ends
LoopDone ==
    /\ pc = "check"
    /\ idx > Len(all_deals)
    /\ pc' = IF ReturnsEarly(ready_deals) THEN "done" ELSE "analyze"
    /\ idx' = 1
    /\ UNCHANGED <<callVars, clockVars, runs, crawlVars, cacheVars, all_deals, ready_deals,
                   counters, outcome, dbVars>>

\* The ids of the batch
BatchIds == {all_deals[ready_deals[k]].id : k \in 1..Len(ready_deals)}
InBatch(i) == \E k \in 1..Len(ready_deals) : ready_deals[k] = i

\* run_once.py:80-82: Analyzer() and analyze_batch(ready_deals)
\* An input the call does not read is held at one value: without a client
\* nothing is called, the fallback model is tried only on a rate limit, the
\* payload is decoded only when a call returned, and embeddings are asked for
\* only after the results were read
ReadInputs(client, primary, fallback_ok, decodable, embed_ok) ==
    /\ ~client => (primary = "ok" /\ decodable /\ embed_ok)
    /\ primary # "rate_limit" => fallback_ok
    /\ ~_generate_with_fallback(primary, fallback_ok) => decodable
    /\ TryOutcome(primary, fallback_ok, decodable) # "ok" => embed_ok

\* What the classifier answered about a deal of the batch, kept in ops
Answer(deal, client, how, results) ==
    IF ~client \/ how # "ok" THEN "no_answer"
    ELSE IF deal.id \notin DOMAIN results THEN "answer_absent"
    ELSE IF results[deal.id].is_hotdeal = Some(TRUE) THEN "answer_hot"
    ELSE "answer_not_hot"

\* The classifier's response names any of the ids of the batch
AnalyzeBatch(client, primary, fallback_ok, decodable, embed_ok) ==
    /\ pc = "analyze"
    /\ ReadInputs(client, primary, fallback_ok, decodable, embed_ok)
    /\ \E ids \in SUBSET BatchIds : \E results \in [ids -> ClassifierResults] :
         LET how == TryOutcome(primary, fallback_ok, decodable)
         IN /\ (~client \/ how # "ok") => ids = {}
            /\ all_deals' =
                  [i \in 1..Len(all_deals) |->
                      IF InBatch(i)
                      THEN Op(Op(analyze_batch(all_deals[i], client, how, results, embed_ok),
                                 Answer(all_deals[i], client, how, results)),
                              "analyze")
                      ELSE all_deals[i]]
            /\ outcome' = IF ~client THEN "no_client"
                           ELSE IF how = "ok" THEN "ok"
                           ELSE "failed"
    /\ pc' = "finalize"
    /\ idx' = 1
    /\ UNCHANGED <<callVars, clockVars, runs, crawlVars, cacheVars, ready_deals, counters, dbVars>>

\* run_once.py:91: which results are written to the cache
WritesCache(deal) == TRUE

\* Processor._save_cache: the content of cache.json after the call
_save_cache(cache, file, save_ok) == IF save_ok THEN cache ELSE file

\* `db = Database()` runs at import; db is the value of db.client a call
\* reads, the same at every read of a run
ReadsClient(db) == IsSome(db_client) => db = Val(db_client)

\* run_once.py:89-98: one iteration of the loop over the results
FinalizeDeal(save_ok, upsert_ok, db) ==
    /\ pc = "finalize"
    /\ idx <= Len(ready_deals)
    /\ LET i    == ready_deals[idx]
           deal == all_deals[i]
       IN /\ IF WritesCache(deal)
             THEN /\ _cache' = update_cache(_cache, deal, now)
                  /\ cacheFile' = _save_cache(_cache', cacheFile, save_ok)
                  /\ all_deals' = [all_deals EXCEPT ![i] = Op(deal, "cache_write")]
             ELSE save_ok /\ UNCHANGED <<_cache, cacheFile, all_deals>>
          /\ IF HotTruthy(deal.is_hotdeal)
             THEN /\ ReadsClient(db)
                  /\ db_client' = Some(db)
                  /\ (~db \/ PayloadRaises(deal)) => upsert_ok
                  /\ hotdeals' = save_deal(hotdeals, db, deal, upsert_ok)
                  /\ calls' = [calls EXCEPT !.save_deal = Append(@, i)]
                  /\ counters' = [counters EXCEPT !.hotdeal_count = @ + 1]
             ELSE upsert_ok /\ db /\ UNCHANGED <<db_client, hotdeals, calls, counters>>
    /\ idx' = idx + 1
    /\ UNCHANGED <<callVars, clockVars, runs, pc, crawlVars, _cache_loaded, ready_deals, outcome>>

\* run_once.py:113-122
SumSavings(deals, picked) ==
    LET RECURSIVE Sum(_)
        Sum(k) == IF k = 0 THEN 0
                  ELSE Sum(k - 1)
                       + (IF /\ HotTruthy(deals[picked[k]].is_hotdeal)
                             /\ IsSome(deals[picked[k]].savings)
                          THEN Val(deals[picked[k]].savings) ELSE 0)
    IN Sum(Len(picked))

Stats ==
    [community_count |-> Len(CRAWLERS),
     total_items |-> Len(all_deals),
     filtered_items |-> counters.dropped_count,
     hotdeal_items |-> counters.hotdeal_count + counters.cached_hotdeal_count,
     total_savings |-> SumSavings(all_deals, ready_deals) + counters.cached_savings]

\* run_once.py:111-124: after the loop over the results, db.save_app_stats
\* (database.py:65-75: without a client nothing is inserted)
SaveStats(db) ==
    /\ pc = "finalize"
    /\ idx > Len(ready_deals)
    /\ ReadsClient(db)
    /\ db_client' = Some(db)
    /\ calls' = [calls EXCEPT
                   !.save_app_stats = Append(@, Stats),
                   !.crawl_stats = IF db THEN Append(@, Stats) ELSE @]
    /\ pc' = "purge"
    /\ UNCHANGED <<callVars, clockVars, runs, crawlVars, cacheVars, loopVars, hotdeals>>

RETENTION_DAYS == 5

\* run_once.py:128: db.clean_old_deals(days=5); database.py:53-63 deletes the
\* rows posted before the cutoff
Purge ==
    /\ pc = "purge"
    /\ calls' = [calls EXCEPT !.clean_old_deals = Append(@, RETENTION_DAYS)]
    /\ hotdeals' = IF Val(db_client)
                   THEN {row \in hotdeals :
                            ~(row.posted_at < now - RETENTION_DAYS * MINUTES_PER_DAY)}
                   ELSE hotdeals
    /\ pc' = "done"
    /\ UNCHANGED <<callVars, clockVars, runs, crawlVars, cacheVars, loopVars, db_client>>

Next ==
    \/ \E minutes \in TickSteps : Tick(minutes)
    \/ StartRun
    \/ \E l \in Catalog : CrawlRow(l)
    \/ ListDone
    \/ \E link \in {PRODUCT_LINK} \cup {l.link : l \in Catalog} : ProcessListed(link)
    \/ CrawlerDone
    \/ \E load_ok \in FileOutcomes : CheckCache(load_ok)
    \/ \E r \in NaverOutcomes : ProcessDeal(r)
    \/ LoopDone
    \/ \E client \in BOOLEAN, primary \in {"ok", "rate_limit", "error"},
          fallback_ok \in BOOLEAN, decodable \in BOOLEAN, embed_ok \in BOOLEAN :
          AnalyzeBatch(client, primary, fallback_ok, decodable, embed_ok)
    \/ \E save_ok \in FileOutcomes, upsert_ok \in BOOLEAN, db \in BOOLEAN :
          FinalizeDeal(save_ok, upsert_ok, db)
    \/ \E db \in BOOLEAN : SaveStats(db)
    \/ Purge

Spec == Init /\ [][Next]_vars

(***************************************************************************)
(* Properties of a run                                                     *)
(***************************************************************************)
Deals == 1..Len(all_deals)
\* The deals a run holds, in the crawler and in run_pipeline
HeldDeals ==
    {listed[k] : k \in 1..Len(listed)} \cup {full_deals[k] : k \in 1..Len(full_deals)}
    \cup {all_deals[k] : k \in Deals}
HasOp(deal, op) == \E k \in 1..Len(deal.ops) : deal.ops[k] = op
FILTER_OPS == {"hard_list", "hard_early", "hard", "soft"}

\* C1: once the status of a listing is DROP, no operation of the run changes
\* it to READY, HOT or the cached-HOT variant.
C1_NeverBackward ==
    [][\A i \in Deals :
          (runs' = runs /\ i <= Len(all_deals') /\ all_deals[i].status = "DROP")
          => all_deals'[i].status \notin {"READY", "HOT", "HOT (Cached)"}]_vars

\* C2: in every state of the run, a listing that is not in ERROR has its
\* dropReason set if and only if its status is DROP.
C2_ReasonIffDrop ==
    \A deal \in HeldDeals :
        deal.status # "ERROR" => (IsSome(deal.reason) <=> deal.status = "DROP")

\* C3: the loop over the results writes a cache entry only for a listing
\* whose status is HOT or DROP; for any other listing the cache and its file
\* stay as they are.
C3_CacheWriteOnlyForVerdict ==
    [][(/\ pc = "finalize"
        /\ idx <= Len(ready_deals)
        /\ all_deals[ready_deals[idx]].status \notin {"HOT", "DROP"})
       => (_cache' = _cache /\ cacheFile' = cacheFile)]_vars

\* C4: the cache lookup is the first stage of every listing: the Hard Filter,
\* the Soft Scorer and the Comparator are applied to a listing only after its
\* lookup missed, and never to a listing served from the cache.
C4_CacheLookupFirst ==
    \A deal \in HeldDeals :
        /\ \A k \in 1..Len(deal.ops) :
              deal.ops[k] \in FILTER_OPS => \E j \in 1..(k - 1) : deal.ops[j] = "miss"
        /\ HasOp(deal, "hit") => \A k \in 1..Len(deal.ops) : deal.ops[k] \notin FILTER_OPS

\* C5: once analyze_batch has returned, every listing of the batch is HOT,
\* DROP or ERROR, whatever the classifier did.
C5_BatchTerminal ==
    outcome # "" =>
        \A i \in Deals : InBatch(i) => all_deals[i].status \in {"HOT", "DROP", "ERROR"}

\* C6: when the classifier call raised or its payload could not be decoded,
\* every listing of the batch has status ERROR (none is HOT or DROP).
C6_FailureForcesError ==
    outcome = "failed" => \A i \in Deals : InBatch(i) => all_deals[i].status = "ERROR"
C6_Witness ==
    /\ outcome = "failed"
    /\ pc = "finalize"
    /\ ready_deals # <<>>

\* The deal at idx has a cache entry of another day
ExpiredAtIdx ==
    LET cache == _load_cache(_cache, _cache_loaded, cacheFile, TRUE)
        key   == _get_cache_key(all_deals[idx])
    IN /\ key \in DOMAIN cache
       /\ cache[key].crawled_at # Today(now)

\* C7: a lookup that finds an entry of another day is a miss: no field of the
\* listing changes, the cache and its entry stay as they are, and the listing
\* goes on to process_deal, which leaves it as the Hard Filter and the Soft
\* Scorer decide.
C7_ExpiredEntryIsMiss ==
    [][/\ (pc = "check" /\ idx <= Len(all_deals) /\ ExpiredAtIdx)
          => /\ pc' = "process" /\ idx' = idx
             /\ all_deals' = [all_deals EXCEPT ![idx] = Op(all_deals[idx], "miss")]
             /\ _cache' = _load_cache(_cache, _cache_loaded, cacheFile, TRUE)
             /\ cacheFile' = cacheFile
       /\ (pc = "process" /\ pc' # pc)
          => \E r \in NaverOutcomes :
                LET res == process_deal(all_deals[idx], now, r)
                IN /\ all_deals'[idx].status = res.status
                   /\ all_deals'[idx].score = res.score
                   /\ all_deals'[idx].reason = res.reason
                   /\ all_deals'[idx].discount_price = res.discount_price]_vars
C7_Witness ==
    /\ pc = "process"
    /\ _get_cache_key(all_deals[idx]) \in DOMAIN _cache
    /\ _cache[_get_cache_key(all_deals[idx])].crawled_at # Today(now)
    /\ all_deals[idx].status = "READY"

(***************************************************************************)
(* The result cache on its own: update_cache and check_cache called on     *)
(* Deal values, in one process or across processes through cache.json.     *)
(* listed holds the argument and the day of the last update_cache,         *)
(* full_deals the argument of the last check_cache, all_deals the deal as  *)
(* that call left it, outcome its returned value, rows the calls made.     *)
(***************************************************************************)
MaxCacheOps == 2

CacheListings ==
    { [ops |-> <<>>] @@ NewDeal(id, "Ppomppu", title, link, None, NOW0 - 40, 5) :
        id \in {"p1", "p2"}, title \in {T_PRICED, T_DEAL},
        link \in {<<"pp/1">>, PRODUCT_LINK} }

\* The deals run_pipeline hands to update_cache: the results of analyze_batch
UpdatedDeals ==
    UNION { { ApplyResult(d, r) : r \in ClassifierResults }
            \cup { [ApplyResult(d, r) EXCEPT !.savings = Some(500)] : r \in ClassifierResults }
            \cup { ApplyMissing(d), ApplyError(d) } : d \in CacheListings }

\* The deals run_pipeline hands to check_cache: as crawled, or dropped by the
\* crawler's early filter
CheckedDeals ==
    CacheListings
    \cup { [d EXCEPT !.status = "DROP", !.comment_count = 0,
                     !.reason = Reason("Low Comments", "", 0, 0, 0, 0)] : d \in CacheListings }

InitCache ==
    /\ now = NOW0 /\ ticks = 0 /\ runs = 0
    /\ cacheFile = EmptyCache
    /\ pc = "cache"
    /\ db_client = None
    /\ hotdeals = {}
    /\ rows = 0
    /\ ProcessReset
    /\ arg = NoArg /\ ret = NoRet

cacheHarnessVars == <<callVars, runs, pc, crawler, seen_ids, idx, ready_deals, counters, dbVars>>

TickCache(minutes) ==
    /\ pc = "cache"
    /\ ticks < MaxTicks
    /\ ticks' = ticks + 1
    /\ now' = now + minutes
    /\ UNCHANGED <<cacheHarnessVars, rows, listed, full_deals, all_deals, outcome, cacheVars>>

\* A new process: Processor._cache is empty and not loaded
NewProcess ==
    /\ pc = "cache"
    /\ _cache_loaded
    /\ _cache' = EmptyCache
    /\ _cache_loaded' = FALSE
    /\ UNCHANGED <<cacheHarnessVars, clockVars, rows, listed, full_deals, all_deals,
                   outcome, cacheFile>>

UpdateCache(deal) ==
    /\ pc = "cache"
    /\ rows < MaxCacheOps
    /\ rows' = rows + 1
    /\ _cache' = update_cache(_load_cache(_cache, _cache_loaded, cacheFile, TRUE), deal, now)
    /\ _cache_loaded' = TRUE
    /\ cacheFile' = _save_cache(_cache', cacheFile, TRUE)
    /\ listed' = <<[deal |-> deal, day |-> Today(now)]>>
    /\ full_deals' = <<>>
    /\ all_deals' = <<>>
    /\ outcome' = ""
    /\ UNCHANGED <<cacheHarnessVars, clockVars>>

LookupCache(deal) ==
    /\ pc = "cache"
    /\ rows < MaxCacheOps
    /\ rows' = rows + 1
    /\ _cache' = _load_cache(_cache, _cache_loaded, cacheFile, TRUE)
    /\ _cache_loaded' = TRUE
    /\ LET res == check_cache(_cache', deal, now)
       IN /\ full_deals' = <<deal>>
          /\ all_deals' = <<res.deal>>
          /\ outcome' = IF res.hit THEN "hit" ELSE "miss"
    /\ UNCHANGED <<cacheHarnessVars, clockVars, listed, cacheFile>>

NextCache ==
    \/ \E minutes \in TickSteps : TickCache(minutes)
    \/ NewProcess
    \/ \E deal \in UpdatedDeals : UpdateCache(deal)
    \/ \E deal \in CheckedDeals : LookupCache(deal)

SpecCache == InitCache /\ [][NextCache]_vars

\* The last check_cache looked up a deal with the title and link of the last
\* update_cache, on the day of that update
SameKeySameDay ==
    /\ listed # <<>> /\ full_deals # <<>>
    /\ full_deals[1].title = listed[1].deal.title
    /\ full_deals[1].link = listed[1].deal.link
    /\ Today(now) = listed[1].day

\* C8: after update_cache(d), a check_cache on the same day for any listing
\* with the title and link of d is a hit, copies the is_hotdeal, category and
\* savings written, and sets the status to the cached-HOT variant when the
\* written is_hotdeal is true and to the cached-DROP variant otherwise; the
\* other fields of the listing neither matter nor change.
C8_CacheRoundTrip ==
    SameKeySameDay =>
        LET written == listed[1].deal
            before  == full_deals[1]
            after   == all_deals[1]
        IN /\ outcome = "hit"
           /\ after.is_hotdeal = written.is_hotdeal
           /\ after.category = written.category
           /\ after.savings = written.savings
           /\ after.status = IF written.is_hotdeal = Some(TRUE) THEN "HOT (Cached)"
                             ELSE "DROP (Cached)"
           /\ after = [before EXCEPT !.is_hotdeal = after.is_hotdeal,
                                     !.category = after.category,
                                     !.savings = after.savings,
                                     !.status = after.status]
C8_Witness ==
    /\ SameKeySameDay
    /\ outcome = "hit"
    /\ full_deals[1].id # listed[1].deal.id
    /\ full_deals[1].status = "DROP"
    /\ listed[1].deal.savings = Some(500)
    /\ all_deals[1].status = "HOT (Cached)"
    /\ ticks > 0

\* C9: the batch handed to the classifier holds exactly the listings whose
\* status is READY, each once; a listing served from the cache or dropped by
\* process_deal is not in it.
C9_BatchIsReady ==
    pc = "analyze" =>
        /\ \A i \in Deals : InBatch(i) <=> all_deals[i].status = "READY"
        /\ \A i \in Deals : InBatch(i) => ~HasOp(all_deals[i], "hit")
        /\ \A j, k \in 1..Len(ready_deals) : ready_deals[j] = ready_deals[k] => j = k
C9_Witness ==
    /\ pc = "analyze"
    /\ \E i \in Deals : InBatch(i)
    /\ \E i \in Deals : all_deals[i].status \in {"DROP", "HOT (Cached)", "DROP (Cached)"}

\* C10: every finished run has handed its statistics to the Database and has
\* issued the purge request.
C10_RunEndsWithStatsAndPurge ==
    pc = "done" =>
        /\ Len(calls.save_app_stats) = 1
        /\ Len(calls.clean_old_deals) = 1

(***************************************************************************)
(* Single calls of the Processor functions.  The initial state holds the   *)
(* inputs of one call (arg) and the clock; the step of the call leaves     *)
(* what it returned, and the deal as it left it, in ret.                   *)
(***************************************************************************)
\* Bounds of the inputs: symbols of a price text, pieces of a title
MaxTextLen == 4
MaxPieces == 4

RECURSIVE Flatten(_)
Flatten(pieces) == IF Len(pieces) = 0 THEN <<>> ELSE Head(pieces) \o Flatten(Tail(pieces))

\* Price texts: digits, the decimal point, both currency marks, a space and
\* another character
PriceSymbols == {"0", "1", "7", ".", "$", "dollar", " ", "x"}

\* Texts with quantities: numbers, unit words, a space and another character
QuantityPieces ==
    {<<"0">>, <<"2">>, <<"3", "0">>, <<"2", "0", "0">>, <<"roll">>, <<"PET">>,
     <<" ">>, <<"x">>}

\* Deals as the crawlers build them
T_PLAIN == <<"x">>
T_ZERO  == <<"chucheon", "eopja", "5", "0", "0", "won">>
T_USD   == <<"x", "$", "1", "0">>
T_PACKS == <<"2", "pack", "9", ",", "0", "0", "0", "won">>
CallTitles == {T_PRICED, T_DEAL, T_BANNED, T_NEG, T_PERCENT, T_PLAIN, T_ZERO, T_USD, T_PACKS}
CallPrices == {None, Some(<<>>), Some(<<"x">>), Some(<<"9", ",", "0", "0", "0", "won">>)}
CallComments == {0, 1, 2, 3, 12}
CallAges == {10, FRESH_MINUTES, 40, 200}
CallDeals ==
    { NewDeal("d", "Ppomppu", title, PRODUCT_LINK, price, NOW0 - age, c) :
        title \in CallTitles, price \in CallPrices, c \in CallComments, age \in CallAges }

\* What the price lookup meets: ok is FALSE when the request fails (no
\* credentials, status # 200, no items, an exception); lprice is the field
\* of the first item
CallLookups ==
    {[ok |-> FALSE, lprice |-> None]} \cup
    {[ok |-> TRUE, lprice |-> lp] :
        lp \in {None, Some(<<"0">>), Some(<<"1", "0", "0", "0">>),
                Some(<<"9", "0", "0", "0">>), Some(<<"1", "2", "0", "0", "0">>)}}

CallOf(fn, deal, ok, lprice, text) ==
    [fn |-> fn, deal |-> deal, ok |-> ok, lprice |-> lprice, text |-> text]

\* The inputs of the call: a deal and what the lookup meets for process_deal,
\* a deal for _apply_hard_filter, None or a text of at most MaxTextLen
\* symbols for normalize_price_text, a text of at most MaxPieces pieces for
\* extract_quantity
InitCalls ==
    /\ now = NOW0 /\ ticks = 0 /\ runs = 0
    /\ cacheFile = EmptyCache
    /\ pc = "call"
    /\ db_client = None
    /\ hotdeals = {}
    /\ rows = 0
    /\ ProcessReset
    /\ ret = NoRet
    /\ \/ \E d \in CallDeals, l \in CallLookups :
              arg = CallOf("process_deal", d, l.ok, l.lprice, None)
       \/ \E d \in CallDeals :
              arg = CallOf("_apply_hard_filter", d, FALSE, None, None)
       \/ arg = CallOf("normalize_price_text", NoDeal, FALSE, None, None)
       \/ \E k \in 0..MaxTextLen : \E t \in [1..k -> PriceSymbols] :
              arg = CallOf("normalize_price_text", NoDeal, FALSE, None, Some(t))
       \/ \E k \in 0..MaxPieces : \E ps \in [1..k -> QuantityPieces] :
              arg = CallOf("extract_quantity", NoDeal, FALSE, None, Some(Flatten(ps)))

callHarnessVars ==
    <<clockVars, runs, pc, crawlVars, cacheVars, loopVars, dbVars, arg>>

CallProcessDeal ==
    /\ pc = "call" /\ arg.fn = "process_deal" /\ ~ret.done
    /\ \E d \in {process_deal(arg.deal, now, search_lowest_price(arg.ok, arg.lprice))} :
          ret' = [NoRet EXCEPT !.done = TRUE, !.drop = (d.status = "DROP"), !.deal = d]
    /\ UNCHANGED callHarnessVars

CallHardFilter ==
    /\ pc = "call" /\ arg.fn = "_apply_hard_filter" /\ ~ret.done
    /\ \E hf \in {_apply_hard_filter(arg.deal, now)} :
          ret' = [NoRet EXCEPT !.done = TRUE, !.drop = hf.drop, !.deal = hf.deal]
    /\ UNCHANGED callHarnessVars

CallNormalize ==
    /\ pc = "call" /\ arg.fn = "normalize_price_text" /\ ~ret.done
    /\ ret' = [NoRet EXCEPT !.done = TRUE, !.text = normalize_price_text(arg.text)]
    /\ UNCHANGED callHarnessVars

CallExtractQuantity ==
    /\ pc = "call" /\ arg.fn = "extract_quantity" /\ ~ret.done
    /\ ret' = [NoRet EXCEPT !.done = TRUE, !.n = extract_quantity(Val(arg.text))]
    /\ UNCHANGED callHarnessVars

NextCalls ==
    \/ CallProcessDeal
    \/ CallHardFilter
    \/ CallNormalize
    \/ CallExtractQuantity

SpecCalls == InitCalls /\ [][NextCalls]_vars

\* The call of fn has returned
Returned(fn) == arg.fn = fn /\ ret.done

(***************************************************************************)
(* Properties of single calls                                              *)
(***************************************************************************)
\* What the Hard Filter makes of the deal of the call
Filtered == _apply_hard_filter(arg.deal, now)

ReasonKind(deal) == IF IsSome(deal.reason) THEN Val(deal.reason).kind ELSE ""

\* The lookup of the call finds a candidate: the request succeeds and the
\* first item carries a price other than 0.  The service returns the price
\* alone, so the candidate has no title and its quantity is 1.
HasCandidate == arg.ok /\ StrTruthy(arg.lprice) /\ StrToInt(Val(arg.lprice)) # 0
Candidate == NaverDict(StrToInt(Val(arg.lprice)), <<>>)

\* process_deal returned for a listing that passed the Hard Filter with a
\* price to compare, and the lookup found a candidate
Compared ==
    /\ Returned("process_deal")
    /\ HasCandidate
    /\ ~Filtered.drop
    /\ LookupCalled(Filtered.deal)

\* C11: when the lookup returns a candidate and the per-unit cost of the
\* listing (price plus shipping, over its quantity) is strictly above the
\* per-unit cost of the candidate, the listing is dropped with a reason that
\* names both unit costs and its score keeps the value it had before scoring;
\* with equal per-unit costs the Comparator does not drop it.
C11_ComparatorDrops ==
    Compared =>
        LET u == UnitCosts(Filtered.deal, Candidate)
        IN /\ u.dealCost * u.naverQty > u.naverCost * u.dealQty =>
                /\ ret.deal.status = "DROP"
                /\ ret.deal.reason = Reason("Expensive", "", u.dealCost, u.dealQty,
                                            u.naverCost, u.naverQty)
                /\ ret.deal.score = arg.deal.score
           /\ u.dealCost * u.naverQty = u.naverCost * u.dealQty =>
                ReasonKind(ret.deal) # "Expensive"

\* The lookup of the call finds nothing: the request fails, times out or
\* raises (ok is FALSE), or its answer carries no price
LookupFails == ~arg.ok \/ ~StrTruthy(arg.lprice)

\* C12: when the price lookup fails, times out, raises or returns nothing,
\* the Comparator does nothing: process_deal returns, the listing is not
\* dropped as too expensive, comparison price and savings stay unset, and
\* the score is the sum of the other signals, to which the threshold is
\* then applied.
C12_LookupFailureIsNoOp ==
    (/\ Returned("process_deal")
     /\ LookupFails
     /\ ~Filtered.drop
     /\ LookupCalled(Filtered.deal)) =>
        /\ ReasonKind(ret.deal) # "Expensive"
        /\ ret.deal.naver_price = None
        /\ ret.deal.savings = None
        /\ ret.deal.score = BaseScore(Filtered.deal, now)
        /\ ret.deal.status = IF ret.deal.score < 0 THEN "DROP" ELSE "READY"

\* reached: a failed lookup for a priced listing that ends READY
C12_Witness ==
    /\ Returned("process_deal")
    /\ ~arg.ok
    /\ ~Filtered.drop
    /\ LookupCalled(Filtered.deal)
    /\ ret.deal.status = "READY"
    /\ ret.deal.score = 5

\* Minutes between the posting of the deal of the call and the call
CallAge == now - arg.deal.posted_at

\* C13: a listing without a banned keyword and with fewer than 3 comments is
\* rejected for low engagement unless it is younger than 30 minutes and has
\* at least 1 comment: 1 comment at 10 minutes is not rejected for it, 1
\* comment at 40 minutes or at exactly 30 minutes is, and 0 comments are at
\* any age.
C13_EngagementFloor ==
    (/\ Returned("_apply_hard_filter")
     /\ ~AnyKeyword(DROP_KEYWORDS, arg.deal.title)
     /\ arg.deal.comment_count < 3) =>
        /\ (ret.drop /\ ReasonKind(ret.deal) = "Low Comments")
              <=> ~(CallAge < 30 /\ arg.deal.comment_count >= 1)
        /\ ReasonKind(ret.deal) = "Low Comments" =>
              ret.deal.reason = Reason("Low Comments", "", arg.deal.comment_count, 0, 0, 0)
        /\ (arg.deal.comment_count = 1 /\ CallAge = 10) =>
              ReasonKind(ret.deal) # "Low Comments"
        /\ (arg.deal.comment_count = 1 /\ CallAge \in {30, 40}) =>
              ReasonKind(ret.deal) = "Low Comments"
        /\ arg.deal.comment_count = 0 => ReasonKind(ret.deal) = "Low Comments"

\* reached: a listing with 1 comment, exactly 30 minutes old, is rejected
C13_Witness ==
    /\ Returned("_apply_hard_filter")
    /\ ~AnyKeyword(DROP_KEYWORDS, arg.deal.title)
    /\ arg.deal.comment_count = 1
    /\ CallAge = 30
    /\ ret.drop
    /\ ReasonKind(ret.deal) = "Low Comments"

\* The engagement floor as the specification words it
BelowFloor == arg.deal.comment_count < 3 /\ ~(CallAge < 30 /\ arg.deal.comment_count >= 1)

\* C14: the Hard Filter tries its checks in the order banned keyword,
\* engagement floor, unpriced; the first check that matches sets the drop
\* reason and nothing after it is done: a rejected listing keeps the price
\* field it came with.
C14_FirstMatchDecides ==
    Returned("_apply_hard_filter") =>
        IF AnyKeyword(DROP_KEYWORDS, arg.deal.title)
        THEN /\ ret.drop
             /\ ret.deal = [arg.deal EXCEPT
                    !.status = "DROP",
                    !.reason = Reason("Keyword",
                                      FirstKeyword(DROP_KEYWORDS, arg.deal.title), 0, 0, 0, 0)]
        ELSE IF BelowFloor
        THEN /\ ret.drop
             /\ ret.deal = [arg.deal EXCEPT
                    !.status = "DROP",
                    !.reason = Reason("Low Comments", "", arg.deal.comment_count, 0, 0, 0)]
        ELSE ret.drop =>
             ret.deal = [arg.deal EXCEPT
                    !.status = "DROP",
                    !.reason = Reason("No Price Found", "", 0, 0, 0, 0)]

\* reached: a listing that matches all three checks is rejected for its
\* banned keyword
C14_Witness ==
    /\ Returned("_apply_hard_filter")
    /\ AnyKeyword(DROP_KEYWORDS, arg.deal.title)
    /\ BelowFloor
    /\ ~IsSome(normalize_price_text(PriceFromTitle(arg.deal)))
    /\ ~HasPriceInTitle(arg.deal)
    /\ ReasonKind(ret.deal) = "Keyword"

\* A non-empty string of decimal digits
IsDigitString(o) == IsSome(o) /\ Len(Val(o)) > 0 /\ \A i \in 1..Len(Val(o)) : IsDigit(Val(o)[i])

\* C15 as stated: whenever the Hard Filter passes a listing, its price field
\* holds a normalized value, a non-empty string of decimal digits.
C15_PassLeavesNormalizedPrice ==
    (Returned("_apply_hard_filter") /\ ~ret.drop) => IsDigitString(ret.deal.discount_price)

\* Some digit run of the title is followed by won, %, dollar or $
TitleHasPriceToken ==
    \E i \in 1..(Len(arg.deal.title) - 1) :
        /\ IsDigit(arg.deal.title[i])
        /\ arg.deal.title[i + 1] \in {"won", "%", "dollar", "$"}

\* C15, amended: whenever the Hard Filter passes a listing, either its price
\* field holds a non-empty string of decimal digits, or the title holds a
\* price-like token (digits followed by won, %, dollar or $) and the price
\* field is left as it came, absent, empty or without any digit.
C15_PassLeavesPriceOrToken ==
    (Returned("_apply_hard_filter") /\ ~ret.drop) =>
        \/ IsDigitString(ret.deal.discount_price)
        \/ /\ TitleHasPriceToken
           /\ ret.deal.discount_price = arg.deal.discount_price
           /\ (IsSome(arg.deal.discount_price) =>
                  \A i \in 1..Len(Val(arg.deal.discount_price)) :
                      ~IsDigit(Val(arg.deal.discount_price)[i]))

\* reached: a listing passes on the price-like token of its title alone,
\* with a price field that holds no digit
C15_Witness ==
    /\ Returned("_apply_hard_filter")
    /\ ~ret.drop
    /\ TitleHasPriceToken
    /\ ret.deal.discount_price = Some(<<"x">>)

\* process_deal returned for a listing that the Hard Filter passed and the
\* Comparator did not reject
ReachedThreshold ==
    /\ Returned("process_deal")
    /\ ~Filtered.drop
    /\ ReasonKind(ret.deal) # "Expensive"

\* C16: a listing that passed the Hard Filter and was not rejected by the
\* Comparator ends DROP with the low-score reason exactly when its score is
\* negative and READY otherwise; a score of exactly 0 ends READY.
C16_ThresholdAtZero ==
    ReachedThreshold =>
        /\ ret.deal.score < 0 =>
              /\ ret.deal.status = "DROP"
              /\ ret.deal.reason = Reason("Low Score", "", ret.deal.score, 0, 0, 0)
        /\ ret.deal.score >= 0 => ret.deal.status = "READY"

\* reached: a listing whose signals sum to exactly 0 ends READY
C16_Witness ==
    /\ ReachedThreshold
    /\ arg.deal.title = T_ZERO
    /\ ret.deal.score = 0
    /\ ret.deal.status = "READY"

\* C17: a listing with 12 comments, a high-discount keyword and a
\* free-shipping marker, no banned, positive or negative keyword, price 9000
\* and quantity 1, for which the lookup finds a candidate of price 12000 and
\* quantity 1, ends READY with savings 6000 and score exactly 8.  The listing
\* is 200 minutes old, so that it earns no velocity bonus.
C17_EndToEnd ==
    (/\ Returned("process_deal")
     /\ arg.deal.title = T_DEAL
     /\ arg.deal.discount_price \in {None, Some(<<"9", ",", "0", "0", "0", "won">>)}
     /\ arg.deal.comment_count = 12
     /\ CallAge = 200
     /\ arg.ok
     /\ arg.lprice = Some(<<"1", "2", "0", "0", "0">>)) =>
        /\ ret.deal.status = "READY"
        /\ ret.deal.savings = Some(6000)
        /\ ret.deal.score = 8

\* C18: the Price Normalizer is idempotent where it returns a value:
\* normalizing the value it returned gives that value again.
C18_NormalizeIdempotent ==
    (Returned("normalize_price_text") /\ IsSome(ret.text)) =>
        normalize_price_text(ret.text) = ret.text

\* reached: the dollar amount 1.7 was converted to 2465
C18_Witness ==
    /\ Returned("normalize_price_text")
    /\ arg.text = Some(<<"$", "1", ".", "7">>)
    /\ ret.text = Some(<<"2", "4", "6", "5">>)

\* The text is one number, \d+(?:\.\d+)?
IsNumber(num) == Len(num) > 0 /\ IsDigit(num[1]) /\ NumEnd(num, 1) = Len(num)

\* The amount times 1450, rounded down
RateFloor(num) == (DecimalOf(num).units * 1450) \div Pow10(DecimalOf(num).places)

\* The text of the call without its first and without its last symbol
CallTextTail == SubSeq(Val(arg.text), 2, Len(Val(arg.text)))
CallTextFront == SubSeq(Val(arg.text), 1, Len(Val(arg.text)) - 1)

\* C19: the symbol-prefix form and the suffix form of a foreign amount give
\* the same result, the amount times 1450 rounded down to an integer string
\* ("$10" and "10dollar" both give "14500"); a text without a foreign form
\* gives its digits, and a text without any digit gives no value.
C19_ForeignAmountTimesRate ==
    (Returned("normalize_price_text") /\ IsSome(arg.text) /\ Len(Val(arg.text)) > 0) =>
        /\ (Val(arg.text)[1] = "$" /\ IsNumber(CallTextTail)) =>
              ret.text = Some(IntToStr(RateFloor(CallTextTail)))
        /\ (Val(arg.text)[Len(Val(arg.text))] = "dollar" /\ IsNumber(CallTextFront)) =>
              ret.text = Some(IntToStr(RateFloor(CallTextFront)))
        /\ (\A i \in 1..Len(Val(arg.text)) : Val(arg.text)[i] \notin {"$", "dollar"}) =>
              ret.text = IF \E i \in 1..Len(Val(arg.text)) : IsDigit(Val(arg.text)[i])
                         THEN Some(SelectSeq(Val(arg.text), IsDigit))
                         ELSE None
        /\ (\A i \in 1..Len(Val(arg.text)) : ~IsDigit(Val(arg.text)[i])) =>
              ret.text = None

\* The starts of the quantity tokens of a text: a digit run, optional
\* spaces, a unit word in either case
IsUnitWord(c) == c \in QUANTITY_UNITS \/ c = "PET"
TokenStarts(s) ==
    {i \in 1..Len(s) :
        /\ IsDigit(s[i])
        /\ (i = 1 \/ ~IsDigit(s[i - 1]))
        /\ \E e \in i..Len(s), u \in (i + 1)..Len(s) :
              /\ e < u
              /\ \A k \in i..e : IsDigit(s[k])
              /\ \A k \in (e + 1)..(u - 1) : IsSpace(s[k])
              /\ IsUnitWord(s[u])}

\* The number a token starts with
TokenNumber(s, i) ==
    CappedInt(SubSeq(s, i, CHOOSE e \in i..Len(s) :
                              /\ \A k \in i..e : IsDigit(s[k])
                              /\ (e = Len(s) \/ ~IsDigit(s[e + 1]))))

\* min(product of the numbers of the tokens, 10000)
RECURSIVE TokenProduct(_, _)
TokenProduct(s, starts) ==
    IF starts = {} THEN 1
    ELSE LET i == CHOOSE j \in starts : TRUE
         IN Capped(TokenNumber(s, i) * TokenProduct(s, starts \ {i}))

C21_ClassifierVerdict ==
    \A i \in Deals :
        /\ HasOp(all_deals[i], "answer_absent") =>
              /\ all_deals[i].status = "DROP"
              /\ all_deals[i].is_hotdeal = Some(FALSE)
        /\ HasOp(all_deals[i], "answer_hot") => all_deals[i].status = "HOT"
        /\ HasOp(all_deals[i], "answer_not_hot") => all_deals[i].status = "DROP"

\* reached: a run ended whose response left one listing of the batch out
\* and named another one
C21_Witness ==
    /\ pc = "done"
    /\ outcome = "ok"
    /\ \E i \in Deals : HasOp(all_deals[i], "answer_absent")
    /\ \E i \in Deals : HasOp(all_deals[i], "answer_hot")

\* C22: every listing the classifier finalizes as HOT is handed to the
\* Database and, when the store client is available, written to the hotdeals
\* table; no listing that is not HOT is ever written.
C22_HotIsStored ==
    /\ \A i \in Deals :
          (all_deals[i].status = "HOT" /\ HasOp(all_deals[i], "cache_write")) =>
              /\ \E k \in 1..Len(calls.save_deal) : calls.save_deal[k] = i
              /\ db_client = Some(TRUE) =>
                    \E row \in hotdeals : row.id = all_deals[i].id /\ row.status = "HOT"
    /\ \A row \in hotdeals : row.status = "HOT"

(***************************************************************************)
(* Further properties of single calls                                      *)
(***************************************************************************)
\* C23: whenever the price lookup returns a non-empty result for a listing
\* with a non-zero numeric price, the result carries a price and a title,
\* the Comparator consumes them, and naver_price is set to the returned
\* price.
C23_CandidateIsConsumed ==
    Compared =>
        /\ search_lowest_price(arg.ok, arg.lprice).kind = "dict"
        /\ ret.deal.naver_price = Some(StrToInt(Val(arg.lprice)))

\* The deltas of the score table that do not depend on a candidate
TableScore(deal) ==
      (IF StrTruthy(deal.discount_price) THEN 2 ELSE 0)
    + (IF \E k \in 1..Len(HIGH_DISCOUNT_KEYWORDS) :
             Contains(HIGH_DISCOUNT_KEYWORDS[k], deal.title) THEN 2 ELSE 0)
    + (IF deal.comment_count >= 10 THEN 1 ELSE 0)
    + (IF \E k \in 1..Len(POSITIVE_KEYWORDS) :
             Contains(POSITIVE_KEYWORDS[k], deal.title) THEN 1 ELSE 0)
    + (IF VelocityIsFast(_calculate_velocity(deal, now)) THEN 1 ELSE 0)
    - 3 * Cardinality({k \in 1..Len(NEGATIVE_KEYWORDS) :
                          Contains(NEGATIVE_KEYWORDS[k], deal.title)})

\* The deltas of the score table for a candidate that is not cheaper per
\* unit: +3 for a ratio below 0.85, +2 for a ratio from 0.85 to below 0.90,
\* and +2 for savings above 30000
TableBonus(u) ==
      (IF 100 * u.dealCost * u.naverQty < 85 * u.naverCost * u.dealQty THEN 3
       ELSE IF 100 * u.dealCost * u.naverQty < 90 * u.naverCost * u.dealQty THEN 2
       ELSE 0)
    + (IF (u.naverCost * u.dealQty - u.dealCost * u.naverQty) \div u.naverQty > 30000
       THEN 2 ELSE 0)

\* C24: the score the Soft Scorer leaves is the sum of the deltas of the
\* table and nothing else: +2 priced, +2 high-discount keyword, +1 for 10
\* comments or more, +1 positive keyword, +1 velocity, -3 for each negative
\* keyword present, one ratio bonus at most, and +2 for savings above 30000.
C24_ScoreIsTableSum ==
    (Returned("process_deal") /\ ~Filtered.drop) =>
        IF Compared
        THEN LET u == UnitCosts(Filtered.deal, Candidate)
             IN u.dealCost * u.naverQty <= u.naverCost * u.dealQty =>
                   ret.deal.score = TableScore(Filtered.deal) + TableBonus(u)
        ELSE (LookupFails \/ ~LookupCalled(Filtered.deal)) =>
                ret.deal.score = TableScore(Filtered.deal)

\* The per-unit costs as the claim words them: (price + shipping fee) over
\* the extracted quantity, the shipping fee of the listing 0 with a
\* free-shipping marker in its title and 3000 otherwise, the one of the
\* candidate always 3000.  Each is the fraction cost / qty.
ListingCost(deal) ==
    StrToInt(Val(deal.discount_price))
    + (IF \E k \in 1..Len(FREE_SHIPPING_MARKERS) :
             Contains(FREE_SHIPPING_MARKERS[k], deal.title) THEN 0 ELSE 3000)
CandidateCost == StrToInt(Val(arg.lprice)) + 3000

\* (candidatePerUnit - listingPerUnit) * listingQuantity for a candidate of
\* quantity 1 (its title carries no quantity token): the candidate's
\* per-unit cost is CandidateCost, the listing's is ListingCost / quantity,
\* so the product is an integer and truncation leaves it alone.
ClaimedSavings(deal) ==
    CandidateCost * extract_quantity(deal.title) - ListingCost(deal)

\* C25: when the Comparator gets a candidate and does not reject, it sets
\* savings to (candidatePerUnit - listingPerUnit) * listingQuantity truncated
\* to an integer, and the savings so set is never negative.
C25_SavingsFormula ==
    (/\ Compared
     /\ extract_quantity(Filtered.deal.title) > 0
     /\ ListingCost(Filtered.deal)
           <= CandidateCost * extract_quantity(Filtered.deal.title)) =>
        /\ ret.deal.savings = Some(ClaimedSavings(Filtered.deal))
        /\ Val(ret.deal.savings) >= 0

\* The call reaches the third check of the Hard Filter: no banned keyword in
\* the title and the engagement floor passed
ReachesPriceCheck ==
    /\ ~AnyKeyword(DROP_KEYWORDS, arg.deal.title)
    /\ ~LowComments(arg.deal, now)

\* The price field holds a normalizable price
FieldHoldsPrice == IsSome(normalize_price_text(arg.deal.discount_price))

\* The title holds a normalizable price: an amount in won, or an amount in
\* dollars written either way round
TitleHoldsPrice ==
    \E i \in 1..Len(arg.deal.title) :
        \/ WonAt(arg.deal.title, i) # 0
        \/ UsdSuffixAt(arg.deal.title, i) # 0
        \/ DollarPrefixAt(arg.deal.title, i) # 0

\* C26: the Hard Filter rejects a listing as unpriced exactly when it reaches
\* the third check and neither the price field nor the title holds a
\* normalizable price and the title holds no price-like token (digits
\* followed by won, %, dollar or $); in every other case the third check
\* passes the listing.
C26_UnpricedExactly ==
    Returned("_apply_hard_filter") =>
        /\ (ReasonKind(ret.deal) = "No Price Found") <=>
              /\ ReachesPriceCheck
              /\ ~FieldHoldsPrice
              /\ ~TitleHoldsPrice
              /\ ~TitleHasPriceToken
        /\ (ReachesPriceCheck /\ ReasonKind(ret.deal) # "No Price Found") => ~ret.drop

(***************************************************************************)
(* The loops of run_pipeline under every evaluation order.  arg holds the  *)
(* fixed inputs of the run: the order (a permutation of the positions of   *)
(* the list), the content of cache.json at the start, the answers of the   *)
(* price lookup by title and the answer of the classifier.  listed holds   *)
(* the listings as the crawlers returned them, all_deals the same listings *)
(* as the run leaves them, idx the position in the order.                  *)
(***************************************************************************)
MaxListings == 2

\* Two listings of one product under one title, one of them without
\* comments, and a third listing
OrderListings ==
    { Listing("a1", "Arca", T_DEAL, PRODUCT_LINK, None, NOW0 - 40, 12),
      Listing("f1", "FMKorea", T_DEAL, PRODUCT_LINK, None, NOW0 - 40, 0),
      Listing("p1", "Ppomppu", T_NEG, <<"pp/1">>, None, NOW0 - 40, 5) }

\* BaseCrawler.process hands every listing on as its early filter left it
Collected(l) == _apply_hard_filter(CrawledDeal(l), NOW0).deal

\* cache.json at the start: empty, or with a verdict on the product written
\* today or the day before
OrderCaches ==
    {EmptyCache}
    \cup { update_cache(EmptyCache,
                        ApplyResult(CrawledDeal(l), r), t) :
             l \in {x \in OrderListings : x.id = "a1"},
             r \in ClassifierResults,
             t \in {NOW0, NOW0 - MINUTES_PER_DAY} }

Orders(n) ==
    { f \in [1..n -> 1..n] : \A i, j \in 1..n : f[i] = f[j] => i = j }

\* An iteration that writes the verdict of process_deal to the cache at once
EvaluateListing_CachesVerdict(cache, deal, t, r) ==
    LET res == check_cache(cache, deal, t)
        out == IF res.hit THEN res.deal ELSE process_deal(res.deal, t, r)
    IN [deal |-> out,
        ready |-> ~res.hit /\ IsReady(out),
        cache |-> IF res.hit THEN cache ELSE update_cache(cache, out, t)]

\* One iteration of the loop at run_once.py:55-71 on one deal: the deal as
\* the iteration leaves it, whether it joins ready_deals, and
\* Processor._cache after it (check_cache reads the cache, nothing writes it)
EvaluateListing(cache, deal, t, r) ==
    LET res == check_cache(cache, deal, t)
        out == IF res.hit THEN res.deal ELSE process_deal(res.deal, t, r)
    IN [deal |-> out, ready |-> ~res.hit /\ IsReady(out), cache |-> cache]

InitOrder ==
    /\ now = NOW0 /\ ticks = 0 /\ runs = 1
    /\ pc = "evaluate"
    /\ db_client = None
    /\ hotdeals = {}
    /\ rows = 0
    /\ _cache = EmptyCache /\ _cache_loaded = FALSE
    /\ crawler = Len(CRAWLERS) /\ full_deals = <<>> /\ seen_ids = {}
    /\ idx = 1 /\ ready_deals = <<>>
    /\ counters = NoCounters /\ outcome = ""
    /\ calls = NoCalls
    /\ ret = NoRet
    /\ \E n \in 1..MaxListings : \E ls \in [1..n -> OrderListings] :
          /\ \A i, j \in 1..n : ls[i] = ls[j] => i = j
          /\ listed = [i \in 1..n |-> Collected(ls[i])]
          /\ \E order \in Orders(n), cache \in OrderCaches,
                lookup \in [{T_DEAL, T_NEG} -> {NaverNone, NaverInt(12000)}],
                client \in BOOLEAN, how \in {"ok", "raised"},
                ids \in SUBSET {ls[i].id : i \in 1..n} :
                \E results \in [ids -> ClassifierResults] :
                   /\ (~client => how = "ok")
                   /\ ((~client \/ how # "ok") => ids = {})
                   /\ arg = [fn |-> "run_pipeline", order |-> order, cache |-> cache,
                             lookup |-> lookup, client |-> client, how |-> how,
                             results |-> results]
                   /\ cacheFile = cache
          /\ all_deals = listed

orderHarnessVars == <<clockVars, runs, crawlVars, db_client, arg, ret>>

\* run_once.py:55-71: the iteration on the deal the order names next;
\* ready_deals is held as a set of positions
EvaluateNext ==
    /\ pc = "evaluate"
    /\ idx <= Len(all_deals)
    /\ \E i \in {arg.order[idx]} :
       \E cache \in {_load_cache(_cache, _cache_loaded, cacheFile, TRUE)} :
       \E res \in {EvaluateListing(cache, all_deals[i], now, arg.lookup[all_deals[i].title])} :
          /\ _cache' = res.cache
          /\ _cache_loaded' = TRUE
          /\ all_deals' = [all_deals EXCEPT ![i] = res.deal]
          /\ ready_deals' = IF res.ready THEN Append(ready_deals, i) ELSE ready_deals
          /\ counters' =
               IF res.ready THEN counters
               ELSE IF res.deal.status \in {"HOT (Cached)", "DROP (Cached)"}
               THEN IF HotTruthy(res.deal.is_hotdeal)
                    THEN [counters EXCEPT !.cached_hotdeal_count = @ + 1]
                    ELSE counters
               ELSE [counters EXCEPT !.dropped_count = @ + 1]
    /\ idx' = idx + 1
    /\ UNCHANGED <<orderHarnessVars, pc, cacheFile, outcome, hotdeals, calls>>

\* run_once.py:74-82: the early return, or analyze_batch on ready_deals
AnalyzeReady ==
    /\ pc = "evaluate"
    /\ idx > Len(all_deals)
    /\ IF ReturnsEarly(ready_deals)
       THEN pc' = "done" /\ UNCHANGED <<all_deals, outcome>>
       ELSE /\ pc' = "finalize"
            /\ all_deals' =
                 [i \in 1..Len(all_deals) |->
                     IF InBatch(i)
                     THEN analyze_batch(all_deals[i], arg.client, arg.how, arg.results, TRUE)
                     ELSE all_deals[i]]
            /\ outcome' = IF ~arg.client THEN "no_client"
                           ELSE IF arg.how = "ok" THEN "ok" ELSE "failed"
    /\ idx' = 1
    /\ UNCHANGED <<orderHarnessVars, cacheVars, ready_deals, counters, hotdeals, calls>>

\* run_once.py:89-98: the loop over the results
FinalizeNext ==
    /\ pc = "finalize"
    /\ idx <= Len(ready_deals)
    /\ \E deal \in {all_deals[ready_deals[idx]]} :
          /\ _cache' = update_cache(_cache, deal, now)
          /\ cacheFile' = _save_cache(_cache', cacheFile, TRUE)
          /\ IF HotTruthy(deal.is_hotdeal)
             THEN /\ hotdeals' = save_deal(hotdeals, TRUE, deal, TRUE)
                  /\ calls' = [calls EXCEPT !.save_deal = Append(@, ready_deals[idx])]
                  /\ counters' = [counters EXCEPT !.hotdeal_count = @ + 1]
             ELSE UNCHANGED <<hotdeals, calls, counters>>
    /\ idx' = idx + 1
    /\ UNCHANGED <<orderHarnessVars, pc, _cache_loaded, all_deals, ready_deals, outcome>>

FinalizeDone ==
    /\ pc = "finalize"
    /\ idx > Len(ready_deals)
    /\ pc' = "done"
    /\ UNCHANGED <<orderHarnessVars, cacheVars, loopVars, hotdeals, calls>>

NextOrder ==
    \/ EvaluateNext
    \/ AnalyzeReady
    \/ FinalizeNext
    \/ FinalizeDone

SpecOrder == InitOrder /\ [][NextOrder]_vars

\* The run of the same inputs in the order of the list: the deals after the
\* loop over all_deals, then after analyze_batch
RECURSIVE ListOrderLoop(_, _, _)
ListOrderLoop(deals, cache, k) ==
    IF k > Len(deals) THEN [deals |-> deals, ready |-> {}]
    ELSE TheOne({ TheOne({
            [deals |-> rest.deals,
             ready |-> IF res.ready THEN rest.ready \cup {k} ELSE rest.ready]
            : rest \in {ListOrderLoop([deals EXCEPT ![k] = res.deal], res.cache, k + 1)} })
         : res \in {EvaluateListing(cache, deals[k], now, arg.lookup[deals[k].title])} })

ListOrderRun ==
    TheOne({ [i \in 1..Len(listed) |->
                 IF i \in loop.ready
                 THEN analyze_batch(loop.deals[i], arg.client, arg.how, arg.results, TRUE)
                 ELSE loop.deals[i]]
             : loop \in {ListOrderLoop(listed, arg.cache, 1)} })

\* C27: within one run, with the clock, the initial cache and the
\* collaborators' answers fixed, every listing ends with the same status
\* in every evaluation order as in the order of the list, also when two
\* listings share title and link.
C27_OrderIndependent ==
    pc = "done" =>
        \E run \in {ListOrderRun} :
            \A i \in 1..Len(all_deals) : all_deals[i].status = run[i].status

\* reached: a run that evaluated two listings of the same title and link in
\* the reverse of the list order, one of them classified HOT
C27_Witness ==
    /\ pc = "done"
    /\ arg.fn = "run_pipeline"
    /\ Len(all_deals) = 2
    /\ arg.order = <<2, 1>>
    /\ _get_cache_key(all_deals[1]) = _get_cache_key(all_deals[2])
    /\ \E i \in 1..2 : all_deals[i].status = "HOT"
    /\ \E i \in 1..2 : all_deals[i].status = "DROP"

\* C28: extract_quantity returns an integer between 1 and 10000 inclusive
\* for every title, so that no per-unit division of the Comparator divides
\* by zero.
C28_QuantityInRange ==
    Returned("extract_quantity") => (ret.n >= 1 /\ ret.n <= 10000)

\* C29: at a fixed clock the Hard Filter is idempotent: applied again to the
\* listing as its first application left it, it returns the same reject/pass
\* result and leaves status, drop reason and price as they were.
C29_HardFilterIdempotent ==
    Returned("_apply_hard_filter") =>
        \E again \in {_apply_hard_filter(ret.deal, now)} :
            /\ again.drop = ret.drop
            /\ again.deal.status = ret.deal.status
            /\ again.deal.reason = ret.deal.reason
            /\ again.deal.discount_price = ret.deal.discount_price

\* reached: a listing passed with the dollar price of its title converted
C29_Witness ==
    /\ Returned("_apply_hard_filter")
    /\ ~ret.drop
    /\ arg.deal.title = T_USD
    /\ ~StrTruthy(arg.deal.discount_price)
    /\ ret.deal.discount_price = Some(<<"1", "4", "5", "0", "0">>)

\* The title of the call holds no negative keyword
NoNegativeKeyword ==
    \A k \in 1..Len(NEGATIVE_KEYWORDS) : ~Contains(NEGATIVE_KEYWORDS[k], arg.deal.title)

\* C30: a listing whose title holds no negative keyword is never dropped by
\* the score threshold: its score is at least 0, and after passing the Hard
\* Filter it ends READY unless the Comparator rejects it.
C30_NoNegativeNoLowScore ==
    (Returned("process_deal") /\ ~Filtered.drop /\ NoNegativeKeyword) =>
        /\ ret.deal.score >= 0
        /\ ReasonKind(ret.deal) # "Low Score"
        /\ ReasonKind(ret.deal) # "Expensive" => ret.deal.status = "READY"

\* reached: a listing without any signal, passed on the percent token of its
\* title, ends READY with score 0
C30_Witness ==
    /\ Returned("process_deal")
    /\ ~Filtered.drop
    /\ arg.deal.title = T_PERCENT
    /\ ret.deal.score = 0
    /\ ret.deal.status = "READY"

====
